---- MODULE Spec2Model ----
(***************************************************************************)
(* Model of the WoW Stat Tracker addon import: the projection of the       *)
(* addon's "characters" table into Character records (lua_parser.c), the   *)
(* Character operations (character.c), the character store                 *)
(* (character_store.c) and the merge loop of DoAddonImport                 *)
(* (main_window.c).                                                        *)
(*                                                                         *)
(* A C string is a sequence of one-character strings.  A Character struct  *)
(* lives in mem under its address (a number); its char* fields hold        *)
(* addresses of cells of str (the malloc'ed strings), or NULL.  Lua        *)
(* numbers are modelled by integers.  Allocations succeed; the files the   *)
(* handlers read and write and the windows they refresh are not part of    *)
(* the state.  The keys of the characters table are strings.               *)
(***************************************************************************)
EXTENDS Integers, Sequences, FiniteSets, TLC

VARIABLES
    mem,            \* live Character structs: address -> struct
    str,            \* live malloc'ed strings: address -> sequence of chars
    store,          \* store->characters[0 .. count-1]: sequence of struct addresses
    pc,             \* position of the running handler ("idle" between handlers)
    table,          \* the characters table being evaluated, in lua_next order
    parseResult,    \* LuaParseResult.characters[0 .. count-1]: struct addresses
    srcKeys,        \* history: the compound key each parseResult entry came from
    idx,            \* loop variable i of DoAddonImport (1-based)
    importedCount,  \* DoAddonImport's importedCount
    updatedCount,   \* DoAddonImport's updatedCount
    pre,            \* history: addresses and field values of the characters held before
    content,        \* the text lua_parser_parse_content was called with
    lua,            \* the interpreters created so far, in order of creation
    world,          \* what evaluated text did outside the interpreter: files, the process
    ret,            \* what the last call returned
    capacity,       \* store->capacity of the character store
    files,          \* the data directory: path -> what the file holds (NoFile if none)
    notifications,  \* store->notifications[0 .. count-1] of the notification store
    config,         \* the keys of the config object the weekly check reads and writes
    clock,          \* time(NULL)
    build           \* the branch of #ifdef _WIN32 compiled: "win32" or "posix"

vars == <<mem, str, store, pc, table, parseResult, srcKeys, idx,
          importedCount, updatedCount, pre, content, lua, world, ret,
          capacity, files, notifications, config, clock, build>>

\* the state of the parser's calls
parserVars == <<content, lua, world, ret>>

\* the files, the notification history, the config and the clock: the dialog and
\* the import are followed up to their call of character_store_save
hostVars == <<files, notifications, config, clock, build>>

----------------------------------------------------------------------------
(* Bounds of the model *)

\* longest compound key drawn for the projection specification
MaxKeyLen == 3

\* most characters the store holds: imports and dialog adds are not started beyond it
MaxStore == 2

(* Program constants *)

\* INITIAL_CAPACITY of character_store.c
INITIAL_CAPACITY == 16

WST_MAX_TIMEWALK == 5

\* sizeof(buf) in lua_array_to_json_string
ArrayBufSize == 512

\* sizeof(buf) in slot_upgrades_to_json_string
SlotBufSize == 2048

\* sizeof(entry) in slot_upgrades_to_json_string
SlotEntrySize == 256

\* sizeof(num) in lua_array_to_json_string
NumBufSize == 16

\* tier/level from which a vault reward counts in count_t8_plus_rewards
T8Threshold == 8

----------------------------------------------------------------------------
(* C strings *)

\* what a NULL char* reads as in a view of a struct
NullStr == <<"<null>">>

\* what a dangling char* reads as in a view of a struct
FreedStr == <<"<freed>">>

\* the null pointer
NULL == <<>>

EmptyStr == <<>>

\* strrchr(s, ch): position of the last ch in s, 0 when there is none
strrchr(s, ch) ==
    LET hits == {k \in 1..Len(s) : s[k] = ch}
    IN IF hits = {} THEN 0 ELSE CHOOSE k \in hits : \A j \in hits : j <= k

\* wst_strndup(src, max_len) on a string without embedded NUL
wst_strndup(src, max_len) ==
    SubSeq(src, 1, IF max_len < Len(src) THEN max_len ELSE Len(src))

\* wst_str_empty on a value (NULL reads as NullStr)
wst_str_empty(s) == s = NullStr \/ Len(s) = 0

Digit(d) ==
    CASE d = 0 -> "0" [] d = 1 -> "1" [] d = 2 -> "2" [] d = 3 -> "3"
      [] d = 4 -> "4" [] d = 5 -> "5" [] d = 6 -> "6" [] d = 7 -> "7"
      [] d = 8 -> "8" [] d = 9 -> "9"

RECURSIVE NatToStr(_)
NatToStr(n) ==
    IF n < 10 THEN <<Digit(n)>> ELSE NatToStr(n \div 10) \o <<Digit(n % 10)>>

\* printf("%d", n)
IntToStr(n) == IF n < 0 THEN <<"-">> \o NatToStr(0 - n) ELSE NatToStr(n)

Digits == {"0", "1", "2", "3", "4", "5", "6", "7", "8", "9"}

DigitVal(c) == CHOOSE d \in 0..9 : Digit(d) = c

RECURSIVE StrToNat(_)
StrToNat(s) ==
    IF Len(s) = 0 THEN 0
    ELSE 10 * StrToNat(SubSeq(s, 1, Len(s) - 1)) + DigitVal(s[Len(s)])

\* the strings Lua converts to a number, among strings over letters, digits and "-"
IsNumeral(s) ==
    LET body == IF Len(s) > 0 /\ s[1] = "-" THEN Tail(s) ELSE s
    IN Len(body) > 0 /\ \A k \in 1..Len(body) : body[k] \in Digits

StrToInt(s) ==
    IF s[1] = "-" THEN 0 - StrToNat(Tail(s)) ELSE StrToNat(s)

----------------------------------------------------------------------------
(* Lua values.  A table has string-keyed fields f (a record) and           *)
(* integer-keyed entries a (a sequence of [k, v], in lua_next order).      *)

Nil == [t |-> "nil"]

LNum(n) == [t |-> "num", v |-> n]

LStr(s) == [t |-> "str", v |-> s]

LBool(b) == [t |-> "bool", v |-> b]

LTab(fields, arr) == [t |-> "tab", f |-> fields, a |-> arr]

lua_istable(v) == v.t = "tab"

lua_isboolean(v) == v.t = "bool"

\* lua_isstring: a string or a number (numbers are convertible)
lua_isstring(v) == v.t \in {"str", "num"}

lua_tostring(v) == IF v.t = "str" THEN v.v ELSE IntToStr(v.v)

\* lua_isnumber: a number or a string convertible to one
lua_isnumber(v) == v.t = "num" \/ (v.t = "str" /\ IsNumeral(v.v))

lua_tonumber(v) == IF v.t = "num" THEN v.v ELSE StrToInt(v.v)

lua_toboolean(v) == v.v

\* lua_getfield(L, -1, key) on the table tbl
lua_getfield(tbl, key) == IF key \in DOMAIN tbl.f THEN tbl.f[key] ELSE Nil

\* the result of an extractor: ok is the returned bool, val the value stored in *out
Got(v) == [ok |-> TRUE, val |-> v]

Absent == [ok |-> FALSE]

get_lua_string(tbl, key) ==
    LET v == lua_getfield(tbl, key)
    IN IF lua_isstring(v) THEN Got(lua_tostring(v)) ELSE Absent

get_lua_number(tbl, key) ==
    LET v == lua_getfield(tbl, key)
    IN IF lua_isnumber(v) THEN Got(lua_tonumber(v)) ELSE Absent

get_lua_bool(tbl, key) ==
    LET v == lua_getfield(tbl, key)
    IN IF lua_isboolean(v) THEN Got(lua_toboolean(v)) ELSE Absent

get_nested_number(tbl, table_key, field_key) ==
    LET sub == lua_getfield(tbl, table_key)
    IN IF ~lua_istable(sub) THEN Absent ELSE get_lua_number(sub, field_key)

get_nested_bool(tbl, table_key, field_key) ==
    LET sub == lua_getfield(tbl, table_key)
    IN IF ~lua_istable(sub) THEN Absent ELSE get_lua_bool(sub, field_key)

\* the values lua_next visits in a table: the integer-keyed ones in order, then
\* the string-keyed ones in an order the table fixes
RECURSIVE FieldValues(_, _)
FieldValues(f, keys) ==
    IF keys = {} THEN <<>>
    ELSE LET k == CHOOSE x \in keys : TRUE
         IN <<f[k]>> \o FieldValues(f, keys \ {k})

TableValues(tbl) ==
    [k \in 1..Len(tbl.a) |-> tbl.a[k].v] \o FieldValues(tbl.f, DOMAIN tbl.f)

\* count_t8_plus_rewards counting the integer-keyed entries only
count_t8_plus_rewards_array(tbl, vault_key, tiers_key) ==
    LET vault == lua_getfield(tbl, vault_key)
    IN IF ~lua_istable(vault) THEN 0
       ELSE LET tiers == lua_getfield(vault, tiers_key)
            IN IF ~lua_istable(tiers) THEN 0
               ELSE Cardinality({k \in 1..Len(tiers.a) :
                        /\ lua_isnumber(tiers.a[k].v)
                        /\ lua_tonumber(tiers.a[k].v) >= T8Threshold})

count_t8_plus_rewards(tbl, vault_key, tiers_key) ==
    LET vault == lua_getfield(tbl, vault_key)
    IN IF ~lua_istable(vault) THEN 0
       ELSE LET tiers == lua_getfield(vault, tiers_key)
            IN IF ~lua_istable(tiers) THEN 0
               ELSE LET vals == TableValues(tiers)
                    IN Cardinality({k \in 1..Len(vals) :
                           lua_isnumber(vals[k]) /\ lua_tonumber(vals[k]) >= T8Threshold})

\* snprintf(buf, size, ...): the formatted text s cut to size - 1 characters
Snprintf(size, s) == SubSeq(s, 1, IF Len(s) < size - 1 THEN Len(s) ELSE size - 1)

\* the loop of lua_array_to_json_string over the visited values, from buffer buf
RECURSIVE ArrayJsonLoop(_, _, _)
ArrayJsonLoop(vals, buf, first) ==
    IF Len(vals) = 0 THEN buf
    ELSE IF ~lua_isnumber(Head(vals)) THEN ArrayJsonLoop(Tail(vals), buf, first)
    ELSE LET num == Snprintf(NumBufSize,
                        (IF first THEN <<>> ELSE <<",">>) \o IntToStr(lua_tonumber(Head(vals))))
         IN IF Len(buf) + Len(num) < ArrayBufSize - 2
            THEN ArrayJsonLoop(Tail(vals), buf \o num, FALSE)
            ELSE ArrayJsonLoop(Tail(vals), buf, first)

\* lua_array_to_json_string: NullStr stands for the NULL it returns
lua_array_to_json_string(tbl, table_key, array_key) ==
    LET outer == lua_getfield(tbl, table_key)
    IN IF ~lua_istable(outer) THEN NullStr
       ELSE LET arr == lua_getfield(outer, array_key)
            IN IF ~lua_istable(arr) THEN NullStr
               ELSE ArrayJsonLoop(TableValues(arr), <<"[">>, TRUE) \o <<"]">>

\* the text snprintf formats for one slot record
SlotEntryText(first, slot, slot_name, track, current, max) ==
    (IF first THEN <<>> ELSE <<",">>)
    \o <<"{", "\"", "s", "l", "o", "t", "\"", ":">> \o IntToStr(slot)
    \o <<",", "\"", "s", "l", "o", "t", "_", "n", "a", "m", "e", "\"", ":", "\"">> \o slot_name
    \o <<"\"", ",", "\"", "t", "r", "a", "c", "k", "\"", ":", "\"">> \o track
    \o <<"\"", ",", "\"", "c", "u", "r", "r", "e", "n", "t", "\"", ":">> \o IntToStr(current)
    \o <<",", "\"", "m", "a", "x", "\"", ":">> \o IntToStr(max)
    \o <<"}">>

SlotNumber(rec, key) ==
    LET v == lua_getfield(rec, key)
    IN IF lua_isnumber(v) THEN lua_tonumber(v) ELSE 0

SlotString(rec, key) ==
    LET v == lua_getfield(rec, key)
    IN IF lua_isstring(v) THEN lua_tostring(v) ELSE EmptyStr

\* the loop of slot_upgrades_to_json_string; yields [buf, first]
RECURSIVE SlotJsonLoop(_, _, _)
SlotJsonLoop(vals, buf, first) ==
    IF Len(vals) = 0 THEN [buf |-> buf, first |-> first]
    ELSE IF ~lua_istable(Head(vals)) THEN SlotJsonLoop(Tail(vals), buf, first)
    ELSE LET rec == Head(vals)
             slot == SlotNumber(rec, "slot")
             slot_name == SlotString(rec, "slot_name")
             track == SlotString(rec, "track")
             current == SlotNumber(rec, "current")
             max == SlotNumber(rec, "max")
             entry == Snprintf(SlotEntrySize,
                          SlotEntryText(first, slot, slot_name, track, current, max))
         IN IF slot > 0 /\ Len(track) > 0 /\ Len(buf) + Len(entry) < SlotBufSize - 2
            THEN SlotJsonLoop(Tail(vals), buf \o entry, FALSE)
            ELSE SlotJsonLoop(Tail(vals), buf, first)

slot_upgrades_to_json_string(tbl) ==
    LET sub == lua_getfield(tbl, "slot_upgrades")
    IN IF ~lua_istable(sub) THEN NullStr
       ELSE LET r == SlotJsonLoop(TableValues(sub), <<"[">>, TRUE)
            IN IF r.first THEN NullStr ELSE r.buf \o <<"]">>

----------------------------------------------------------------------------
(* Character: field values.  A value record holds the strings themselves   *)
(* (NullStr for a NULL pointer); a struct in mem holds pointers.           *)

StrFields == {"realm", "name", "guild", "notes", "week_id", "slot_upgrades_json",
              "missing_sockets_json", "empty_sockets_json", "missing_enchants_json"}

\* the fields the update path of the merge lists
OldAddonFields == {"guild", "item_level", "heroic_items", "champion_items",
                   "veteran_items", "adventure_items", "old_items", "vault_visited",
                   "delves", "gilded_stash", "gearing_up", "quests", "timewalk"}

\* the addon-sourced fields added later
NewAddonFields == {"upgrade_current", "upgrade_max", "socket_missing_count",
                   "socket_empty_count", "enchant_missing_count", "slot_upgrades_json",
                   "missing_sockets_json", "empty_sockets_json",
                   "missing_enchants_json", "week_id"}

\* character_new: calloc, then "" for realm, name, guild and notes
character_new ==
    [realm |-> EmptyStr, name |-> EmptyStr, guild |-> EmptyStr, notes |-> EmptyStr,
     week_id |-> NullStr, slot_upgrades_json |-> NullStr,
     missing_sockets_json |-> NullStr, empty_sockets_json |-> NullStr,
     missing_enchants_json |-> NullStr,
     item_level |-> 0, heroic_items |-> 0, champion_items |-> 0, veteran_items |-> 0,
     adventure_items |-> 0, old_items |-> 0, vault_visited |-> FALSE, delves |-> 0,
     dungeons |-> 0, vault_t8_plus |-> 0, gilded_stash |-> 0, gearing_up |-> FALSE,
     quests |-> FALSE, timewalk |-> 0, upgrade_current |-> 0, upgrade_max |-> 0,
     socket_missing_count |-> 0, socket_empty_count |-> 0, enchant_missing_count |-> 0]

Fields == DOMAIN character_new

character_create(realm, name) ==
    [character_new EXCEPT !.realm = realm, !.name = name]

\* c with field f set to r.val when the extractor result r is present
SetIf(c, f, r) == IF r.ok THEN [c EXCEPT ![f] = r.val] ELSE c

\* the value an extractor leaves in *out: r.val, or the initial value when absent
OrElse(r, init) == IF r.ok THEN r.val ELSE init

\* ParseDelves subtracting the gearing-up delve even from a count of 0
ParseDelves_nofloor(c, tbl) ==
    LET d == get_nested_number(tbl, "vault_delves", "count")
    IN IF ~d.ok THEN c
       ELSE [c EXCEPT !.delves = IF c.gearing_up THEN d.val - 1 ELSE d.val]

\* parse_character, lines 453-465: delves from vault_delves.count and gearing_up
ParseDelves(c, tbl) ==
    LET d == get_nested_number(tbl, "vault_delves", "count")
    IN IF ~d.ok THEN c
       ELSE [c EXCEPT !.delves = IF c.gearing_up /\ d.val > 0 THEN d.val - 1 ELSE d.val]

\* parse_character, lines 481-492: timewalk from timewalking_quest
ParseTimewalk(c, tbl) ==
    LET done == get_nested_bool(tbl, "timewalking_quest", "completed")
        progress == get_nested_number(tbl, "timewalking_quest", "progress")
    IN IF ~done.ok THEN c
       ELSE IF done.val THEN [c EXCEPT !.timewalk = WST_MAX_TIMEWALK]
       ELSE SetIf(c, "timewalk", progress)

\* ParseGear clamping the gaps at 0
ParseGear_clamped(c, tbl) ==
    LET c1 == SetIf(SetIf(c, "upgrade_current", get_lua_number(tbl, "upgrade_current")),
                    "upgrade_max", get_lua_number(tbl, "upgrade_max"))
        socketable_count == OrElse(get_nested_number(tbl, "socket_info", "socketable_count"), 0)
        socketed_count == OrElse(get_nested_number(tbl, "socket_info", "socketed_count"), 0)
        empty_count == OrElse(get_nested_number(tbl, "socket_info", "empty_count"), 0)
        enchantable_count == OrElse(get_nested_number(tbl, "enchant_info", "enchantable_count"), 0)
        enchant_count == OrElse(get_nested_number(tbl, "enchant_info", "enchant_count"), 0)
    IN [c1 EXCEPT
          !.socket_missing_count =
              IF socketable_count < socketed_count THEN 0
              ELSE socketable_count - socketed_count,
          !.socket_empty_count = empty_count,
          !.enchant_missing_count =
              IF enchantable_count < enchant_count THEN 0
              ELSE enchantable_count - enchant_count,
          !.slot_upgrades_json = slot_upgrades_to_json_string(tbl),
          !.missing_sockets_json =
              lua_array_to_json_string(tbl, "socket_info", "missing_sockets"),
          !.empty_sockets_json =
              lua_array_to_json_string(tbl, "socket_info", "empty_sockets"),
          !.missing_enchants_json =
              lua_array_to_json_string(tbl, "enchant_info", "missing_enchants")]

\* parse_character, lines 501-523: upgrade totals, socket/enchant gaps, per-slot strings
ParseGear(c, tbl) ==
    LET c1 == SetIf(SetIf(c, "upgrade_current", get_lua_number(tbl, "upgrade_current")),
                    "upgrade_max", get_lua_number(tbl, "upgrade_max"))
        socketable_count == OrElse(get_nested_number(tbl, "socket_info", "socketable_count"), 0)
        socketed_count == OrElse(get_nested_number(tbl, "socket_info", "socketed_count"), 0)
        empty_count == OrElse(get_nested_number(tbl, "socket_info", "empty_count"), 0)
        enchantable_count == OrElse(get_nested_number(tbl, "enchant_info", "enchantable_count"), 0)
        enchant_count == OrElse(get_nested_number(tbl, "enchant_info", "enchant_count"), 0)
    IN [c1 EXCEPT
          !.socket_missing_count = socketable_count - socketed_count,
          !.socket_empty_count = empty_count,
          !.enchant_missing_count = enchantable_count - enchant_count,
          !.slot_upgrades_json = slot_upgrades_to_json_string(tbl),
          !.missing_sockets_json =
              lua_array_to_json_string(tbl, "socket_info", "missing_sockets"),
          !.empty_sockets_json =
              lua_array_to_json_string(tbl, "socket_info", "empty_sockets"),
          !.missing_enchants_json =
              lua_array_to_json_string(tbl, "enchant_info", "missing_enchants")]

\* strchr(s, ch): position of the first ch in s, 0 when there is none
strchr(s, ch) ==
    LET hits == {k \in 1..Len(s) : s[k] = ch}
    IN IF hits = {} THEN 0 ELSE CHOOSE k \in hits : \A j \in hits : k <= j

\* SplitKey splitting at the first dash instead of the last
SplitKey_first(char_key) ==
    LET dash == strchr(char_key, "-")
    IN IF dash = 0 THEN [ok |-> FALSE, name |-> EmptyStr, realm |-> EmptyStr]
       ELSE [ok |-> TRUE,
             name |-> wst_strndup(char_key, dash - 1),
             realm |-> SubSeq(char_key, dash + 1, Len(char_key))]

\* the split of parse_character: [ok, name, realm]; ok is FALSE when there is no dash
SplitKey(char_key) ==
    LET dash == strrchr(char_key, "-")
    IN IF dash = 0 THEN [ok |-> FALSE, name |-> EmptyStr, realm |-> EmptyStr]
       ELSE [ok |-> TRUE,
             name |-> wst_strndup(char_key, dash - 1),
             realm |-> SubSeq(char_key, dash + 1, Len(char_key))]

\* parse_character(L, char_key) on the table tbl: <<>> for NULL, else <<character>>
parse_character(tbl, char_key) ==
    LET k == SplitKey(char_key)
    IN IF ~k.ok THEN <<>>
       ELSE LET c0 == character_create(k.realm, k.name)
                c1 == SetIf(c0, "guild", get_lua_string(tbl, "guild"))
                c2 == SetIf(c1, "item_level", get_lua_number(tbl, "item_level"))
                c3 == SetIf(c2, "heroic_items", get_lua_number(tbl, "heroic_items"))
                c4 == SetIf(c3, "champion_items", get_lua_number(tbl, "champion_items"))
                c5 == SetIf(c4, "veteran_items", get_lua_number(tbl, "veteran_items"))
                c6 == SetIf(c5, "adventure_items", get_lua_number(tbl, "adventure_items"))
                c7 == SetIf(c6, "old_items", get_lua_number(tbl, "old_items"))
                c8 == SetIf(c7, "vault_visited", get_lua_bool(tbl, "vault_visited"))
                c9 == SetIf(c8, "gearing_up", get_lua_bool(tbl, "gearing_up"))
                c10 == SetIf(c9, "quests", get_lua_bool(tbl, "quests"))
                c11 == ParseDelves(c10, tbl)
                c12 == SetIf(c11, "dungeons",
                             get_nested_number(tbl, "vault_dungeons", "count"))
                c13 == [c12 EXCEPT !.vault_t8_plus =
                            count_t8_plus_rewards(tbl, "vault_delves", "tiers")
                            + count_t8_plus_rewards(tbl, "vault_dungeons", "levels")]
                c14 == SetIf(c13, "gilded_stash",
                             get_nested_number(tbl, "gilded_stash", "claimed"))
                c15 == ParseTimewalk(c14, tbl)
                c16 == SetIf(c15, "week_id", get_lua_string(tbl, "week_id"))
            IN <<ParseGear(c16, tbl)>>

\* ParseEntries leaving the loop at the first entry that yields no character
RECURSIVE ParseEntries_abort(_)
ParseEntries_abort(entries) ==
    IF Len(entries) = 0 THEN <<>>
    ELSE LET e == Head(entries)
             c == IF lua_istable(e.val) THEN parse_character(e.val, e.key) ELSE <<>>
         IN IF Len(c) = 0 THEN <<>>
            ELSE <<[key |-> e.key, c |-> c[1]]>> \o ParseEntries_abort(Tail(entries))

\* the loop of lua_parser_parse_content over the characters table, whose entries
\* arrive in lua_next order: the sequence of [key, c] of the characters it stores
RECURSIVE ParseEntries(_)
ParseEntries(entries) ==
    IF Len(entries) = 0 THEN <<>>
    ELSE LET e == Head(entries)
             c == IF lua_istable(e.val) THEN parse_character(e.val, e.key) ELSE <<>>
         IN (IF Len(c) = 0 THEN <<>> ELSE <<[key |-> e.key, c |-> c[1]]>>)
            \o ParseEntries(Tail(entries))

----------------------------------------------------------------------------
(* Memory.  M = [mem, str]: the live structs and the live strings.  The    *)
(* string a struct at address id owns for field f is allocated at address  *)
(* <<id, f>>: malloc may return any fresh address, and only equality of    *)
(* addresses is ever observed.                                             *)

Memory == [mem |-> mem, str |-> str]

\* f without the arguments in gone
Without(f, gone) == [x \in DOMAIN f \ gone |-> f[x]]

\* the string a char* reads as
Deref(M, p) ==
    IF p = NULL THEN NullStr
    ELSE IF p \in DOMAIN M.str THEN M.str[p] ELSE FreedStr

\* what reading a freed struct yields: nothing of the character
FreedView ==
    [f \in Fields |->
        IF f \in StrFields THEN FreedStr
        ELSE IF f \in {"vault_visited", "gearing_up", "quests"} THEN FALSE ELSE 0 - 1]

\* the field values of the struct at address id
View(M, id) ==
    IF id \notin DOMAIN M.mem THEN FreedView
    ELSE [f \in Fields |->
             IF f \in StrFields THEN Deref(M, M.mem[id][f]) ELSE M.mem[id][f]]

\* a new struct at address id holding the values c, each string in a cell of its own
Materialize(M, id, c) ==
    [mem |-> (id :> [f \in Fields |->
                        IF f \in StrFields
                        THEN (IF c[f] = NullStr THEN NULL ELSE <<id, f>>)
                        ELSE c[f]]) @@ M.mem,
     str |-> [p \in {<<id, f>> : f \in {g \in StrFields : c[g] # NullStr}} |-> c[p[2]]]
             @@ M.str]

\* set_string_field(&c->f, value): strdup(value ? value : ""), free the old, assign
set_string_field(M, id, f, value) ==
    LET new_val == IF value = NullStr THEN EmptyStr ELSE value
        old == M.mem[id][f]
    IN [mem |-> [M.mem EXCEPT ![id][f] = <<id, f>>],
        str |-> (<<id, f>> :> new_val) @@ Without(M.str, {old})]

character_set_realm(M, id, value) == set_string_field(M, id, "realm", value)

character_set_name(M, id, value) == set_string_field(M, id, "name", value)

character_set_guild(M, id, value) == set_string_field(M, id, "guild", value)

character_set_notes(M, id, value) == set_string_field(M, id, "notes", value)

\* character_free: free every string of the struct, then the struct
character_free(M, id) ==
    IF id \notin DOMAIN M.mem THEN M
    ELSE [mem |-> Without(M.mem, {id}),
          str |-> Without(M.str, {M.mem[id][f] : f \in StrFields})]

\* the copy of a string character_copy makes for realm, name, guild and notes
DupOrEmpty(M, p) == IF p = NULL THEN EmptyStr ELSE Deref(M, p)

\* character_copy as a struct assignment: the copy points to the strings of src
character_copy_shallow(M, src, id) ==
    [mem |-> (id :> M.mem[src]) @@ M.mem, str |-> M.str]

\* character_copy(src) into a new struct at address id
character_copy(M, src, id) ==
    LET s == M.mem[src]
    IN Materialize(M, id,
         [character_new EXCEPT
            !.realm = DupOrEmpty(M, s.realm),
            !.name = DupOrEmpty(M, s.name),
            !.guild = DupOrEmpty(M, s.guild),
            !.notes = DupOrEmpty(M, s.notes),
            !.item_level = s.item_level,
            !.heroic_items = s.heroic_items,
            !.champion_items = s.champion_items,
            !.veteran_items = s.veteran_items,
            !.adventure_items = s.adventure_items,
            !.old_items = s.old_items,
            !.vault_visited = s.vault_visited,
            !.delves = s.delves,
            !.gilded_stash = s.gilded_stash,
            !.gearing_up = s.gearing_up,
            !.quests = s.quests,
            !.timewalk = s.timewalk,
            !.upgrade_current = s.upgrade_current,
            !.upgrade_max = s.upgrade_max,
            !.socket_missing_count = s.socket_missing_count,
            !.socket_empty_count = s.socket_empty_count,
            !.enchant_missing_count = s.enchant_missing_count,
            !.week_id = Deref(M, s.week_id),
            !.slot_upgrades_json = Deref(M, s.slot_upgrades_json),
            !.missing_sockets_json = Deref(M, s.missing_sockets_json),
            !.empty_sockets_json = Deref(M, s.empty_sockets_json),
            !.missing_enchants_json = Deref(M, s.missing_enchants_json)])

----------------------------------------------------------------------------
(* Character store *)

\* character_store_find with the loop stopping one character early
character_store_find_short(M, st, realm, name) ==
    LET hits == {k \in 1..(Len(st) - 1) :
                    /\ Deref(M, M.mem[st[k]].realm) = realm
                    /\ Deref(M, M.mem[st[k]].name) = name}
    IN IF realm = NullStr \/ name = NullStr \/ hits = {} THEN 0
       ELSE CHOOSE k \in hits : \A j \in hits : k <= j

\* tolower on the letters of the keys
ToLower(c) == IF c = "A" THEN "a" ELSE IF c = "R" THEN "r" ELSE c

LowerStr(s) == [k \in 1..Len(s) |-> ToLower(s[k])]

\* character_store_find comparing with wst_strcasecmp instead of wst_strcmp
character_store_find_nocase(M, st, realm, name) ==
    LET hits == {k \in 1..Len(st) :
                    /\ LowerStr(Deref(M, M.mem[st[k]].realm)) = LowerStr(realm)
                    /\ LowerStr(Deref(M, M.mem[st[k]].name)) = LowerStr(name)}
    IN IF realm = NullStr \/ name = NullStr \/ hits = {} THEN 0
       ELSE CHOOSE k \in hits : \A j \in hits : k <= j

\* character_store_find: index (1-based) of the first character with this realm
\* and name, 0 for the -1 of the code
character_store_find(M, st, realm, name) ==
    LET hits == {k \in 1..Len(st) :
                    /\ Deref(M, M.mem[st[k]].realm) = realm
                    /\ Deref(M, M.mem[st[k]].name) = name}
    IN IF realm = NullStr \/ name = NullStr \/ hits = {} THEN 0
       ELSE CHOOSE k \in hits : \A j \in hits : k <= j

\* ensure_capacity(store) before an add at count characters: the capacity after it
ensure_capacity(count, cap) == IF count < cap THEN cap ELSE cap * 2

\* character_store_add: append the pointer
character_store_add(st, c) == Append(st, c)

\* the address malloc returns for a struct that goes into the store
NewAddr(M) == CHOOSE n \in 1..(Cardinality(DOMAIN M.mem) + 1) : n \notin DOMAIN M.mem

\* the address of the j-th struct of a parse result
ParseAddr(j) == 0 - j

----------------------------------------------------------------------------
(* DoAddonImport *)

\* MergeUpdate that also takes the notes of addonChar
MergeUpdate_notes(M, existing, addonChar) ==
    LET a == M.mem[addonChar]
        M1 == IF a.guild # NULL
              THEN character_set_guild(M, existing, Deref(M, a.guild))
              ELSE M
        M2 == character_set_notes(M1, existing, Deref(M, a.notes))
    IN [M2 EXCEPT
          !.mem[existing].item_level = a.item_level,
          !.mem[existing].heroic_items = a.heroic_items,
          !.mem[existing].champion_items = a.champion_items,
          !.mem[existing].veteran_items = a.veteran_items,
          !.mem[existing].adventure_items = a.adventure_items,
          !.mem[existing].old_items = a.old_items,
          !.mem[existing].vault_visited = a.vault_visited,
          !.mem[existing].delves = a.delves,
          !.mem[existing].gilded_stash = a.gilded_stash,
          !.mem[existing].gearing_up = a.gearing_up,
          !.mem[existing].quests = a.quests,
          !.mem[existing].timewalk = a.timewalk]

\* MergeUpdate without the assignment of quests
MergeUpdate_noquests(M, existing, addonChar) ==
    LET a == M.mem[addonChar]
        M1 == IF a.guild # NULL
              THEN character_set_guild(M, existing, Deref(M, a.guild))
              ELSE M
    IN [M1 EXCEPT
          !.mem[existing].item_level = a.item_level,
          !.mem[existing].heroic_items = a.heroic_items,
          !.mem[existing].champion_items = a.champion_items,
          !.mem[existing].veteran_items = a.veteran_items,
          !.mem[existing].adventure_items = a.adventure_items,
          !.mem[existing].old_items = a.old_items,
          !.mem[existing].vault_visited = a.vault_visited,
          !.mem[existing].delves = a.delves,
          !.mem[existing].gilded_stash = a.gilded_stash,
          !.mem[existing].gearing_up = a.gearing_up,
          !.mem[existing].timewalk = a.timewalk]

\* the update branch of the merge loop: existing <- the addon-sourced fields of addonChar
MergeUpdate(M, existing, addonChar) ==
    LET a == M.mem[addonChar]
        M1 == IF a.guild # NULL
              THEN character_set_guild(M, existing, Deref(M, a.guild))
              ELSE M
    IN [M1 EXCEPT
          !.mem[existing].item_level = a.item_level,
          !.mem[existing].heroic_items = a.heroic_items,
          !.mem[existing].champion_items = a.champion_items,
          !.mem[existing].veteran_items = a.veteran_items,
          !.mem[existing].adventure_items = a.adventure_items,
          !.mem[existing].old_items = a.old_items,
          !.mem[existing].vault_visited = a.vault_visited,
          !.mem[existing].delves = a.delves,
          !.mem[existing].gilded_stash = a.gilded_stash,
          !.mem[existing].gearing_up = a.gearing_up,
          !.mem[existing].quests = a.quests,
          !.mem[existing].timewalk = a.timewalk]

\* TRUE when the loop skips addonChar: a NULL name or a NULL realm
MergeSkips(M, addonChar) ==
    M.mem[addonChar].name = NULL \/ M.mem[addonChar].realm = NULL

\* one iteration of the merge loop on addonChar:
\* [M, store, imported, updated] after it
MergeOne(M, st, addonChar) ==
    IF MergeSkips(M, addonChar)
    THEN [M |-> M, store |-> st, imported |-> 0, updated |-> 0]
    ELSE LET existingIdx == character_store_find(M, st,
                                Deref(M, M.mem[addonChar].realm),
                                Deref(M, M.mem[addonChar].name))
         IN IF existingIdx > 0
            THEN [M |-> MergeUpdate(M, st[existingIdx], addonChar), store |-> st,
                  imported |-> 0, updated |-> 1]
            ELSE LET newChar == NewAddr(M)
                 IN [M |-> character_copy(M, addonChar, newChar),
                     store |-> character_store_add(st, newChar),
                     imported |-> 1, updated |-> 0]

\* the parse result for the entries: every stored character in a struct of its own
RECURSIVE MaterializeAll(_, _, _)
MaterializeAll(M, res, j) ==
    IF j > Len(res) THEN M
    ELSE MaterializeAll(Materialize(M, ParseAddr(j), res[j].c), res, j + 1)

\* lua_parser_free_result: character_free on every entry
RECURSIVE FreeAll(_, _)
FreeAll(M, ids) ==
    IF Len(ids) = 0 THEN M ELSE FreeAll(character_free(M, Head(ids)), Tail(ids))

\* the views of the store's characters, in order
StoreViews == [k \in 1..Len(store) |-> View(Memory, store[k])]

NoPre == [ids |-> <<>>, views |-> <<>>]

\* the number of characters a merge of res would insert into st
RECURSIVE Inserts(_, _, _)
Inserts(M, st, ids) ==
    IF Len(ids) = 0 THEN 0
    ELSE LET r == MergeOne(M, st, Head(ids))
         IN r.imported + Inserts(r.M, r.store, Tail(ids))

\* DoAddonImport up to the merge loop: parse the addon file whose characters
\* table is tb; "No character data found" when nothing was parsed
ImportBegin(tb) ==
    /\ pc = "idle"
    /\ \E res \in {ParseEntries(tb)} :
       \E M \in {MaterializeAll(Memory, res, 1)} :
       \E ids \in {[j \in 1..Len(res) |-> ParseAddr(j)]} :
          /\ Len(store) + Inserts(M, store, ids) <= MaxStore
          /\ IF Len(res) = 0
             THEN /\ table' = <<>>
                  /\ UNCHANGED <<mem, str, store, pc, parseResult, srcKeys, idx,
                                 importedCount, updatedCount, pre>>
             ELSE /\ mem' = M.mem
                  /\ str' = M.str
                  /\ table' = tb
                  /\ parseResult' = ids
                  /\ srcKeys' = [j \in 1..Len(res) |-> res[j].key]
                  /\ idx' = 1
                  /\ importedCount' = 0
                  /\ updatedCount' = 0
                  /\ pre' = [ids |-> store, views |-> StoreViews]
                  /\ pc' = "merge"
                  /\ UNCHANGED store
    /\ UNCHANGED <<parserVars, hostVars>>
    /\ UNCHANGED capacity

\* one iteration of the merge loop
MergeStep ==
    /\ pc = "merge"
    /\ \E r \in {MergeOne(Memory, store, parseResult[idx])} :
          /\ mem' = r.M.mem
          /\ str' = r.M.str
          /\ store' = r.store
          /\ importedCount' = importedCount + r.imported
          /\ updatedCount' = updatedCount + r.updated
          /\ capacity' = IF r.imported = 1
                          THEN ensure_capacity(Len(store), capacity) ELSE capacity
    /\ idx' = idx + 1
    /\ pc' = IF idx = Len(parseResult) THEN "free" ELSE "merge"
    /\ UNCHANGED <<table, parseResult, srcKeys, pre>>
    /\ UNCHANGED <<parserVars, hostVars>>

\* lua_parser_free_result(&parseResult)
ImportFree ==
    /\ pc = "free"
    /\ \E M \in {FreeAll(Memory, parseResult)} :
          mem' = M.mem /\ str' = M.str
    /\ parseResult' = <<>>
    /\ pc' = "save"
    /\ UNCHANGED <<store, table, srcKeys, idx, importedCount, updatedCount, pre>>
    /\ UNCHANGED <<parserVars, hostVars>>
    /\ UNCHANGED capacity

\* character_store_save, RefreshCharacterList and the status message: the
\* store in memory stays as it is, and the handler returns
ImportSave ==
    /\ pc = "save"
    /\ pc' = "idle"
    /\ table' = <<>>
    /\ srcKeys' = <<>>
    /\ idx' = 0
    /\ importedCount' = 0
    /\ updatedCount' = 0
    /\ pre' = NoPre
    /\ UNCHANGED <<mem, str, store, parseResult>>
    /\ UNCHANGED <<parserVars, hostVars>>
    /\ UNCHANGED capacity

----------------------------------------------------------------------------
(* The character dialog *)

\* A UINT is kept as its two 16-bit halves [hi, lo].
\* (UINT) of the int v: what SetDlgItemInt(hDlg, id, v, FALSE) shows
UintOfInt(v) == [hi |-> (v \div 2^16) % 2^16, lo |-> v % 2^16]

\* (int) of the UINT u: the assignment of GetDlgItemInt's result to an int field
IntOfUint(u) == (IF u.hi >= 2^15 THEN u.hi - 2^16 ELSE u.hi) * 2^16 + u.lo

\* the digits the text of an edit control begins with
LeadingDigits(text) ==
    LET stops == {k \in 1..Len(text) : text[k] \notin Digits}
    IN IF stops = {} THEN text
       ELSE SubSeq(text, 1, (CHOOSE k \in stops : \A j \in stops : k <= j) - 1)

\* the value of the digits d as a UINT, from the value u of the digits before
\* them: [ok, u], ok false once the value exceeds a UINT
RECURSIVE DigitsToUint(_, _)
DigitsToUint(d, u) ==
    IF Len(d) = 0 THEN [ok |-> TRUE, u |-> u]
    ELSE LET lo == u.lo * 10 + DigitVal(Head(d))
             hi == u.hi * 10 + lo \div 2^16
         IN IF hi >= 2^16 THEN [ok |-> FALSE, u |-> u]
            ELSE DigitsToUint(Tail(d), [hi |-> hi, lo |-> lo % 2^16])

\* GetDlgItemInt(hDlg, id, NULL, FALSE) on the text of the control: the unsigned
\* value of its leading digits, 0 when there is none or it exceeds a UINT
GetDlgItemInt(text) ==
    LET d == LeadingDigits(text)
        r == DigitsToUint(d, UintOfInt(0))
    IN IF Len(d) = 0 \/ ~r.ok THEN UintOfInt(0) ELSE r.u

\* the clamp of the OK handler: if (v > max) v = max
ClampMax(v, max) == IF v > max THEN max ELSE v

\* the OK handler of CharacterDlgProc on the struct ch with the dialog's contents
\* form: the texts of the edit controls, and for the counts what GetDlgItemInt
\* returns for them
DlgStore(M, ch, form) ==
    LET M1 == character_set_realm(M, ch, form.realm)
        M2 == character_set_name(M1, ch, form.name)
        M3 == character_set_guild(M2, ch, form.guild)
        M4 == [M3 EXCEPT
                 !.mem[ch].item_level = form.item_level,
                 !.mem[ch].heroic_items = IntOfUint(form.heroic_items),
                 !.mem[ch].champion_items = IntOfUint(form.champion_items),
                 !.mem[ch].veteran_items = IntOfUint(form.veteran_items),
                 !.mem[ch].adventure_items = IntOfUint(form.adventure_items),
                 !.mem[ch].old_items = IntOfUint(form.old_items),
                 !.mem[ch].vault_visited = form.vault_visited,
                 !.mem[ch].delves = ClampMax(IntOfUint(form.delves), 8),
                 !.mem[ch].gilded_stash = ClampMax(IntOfUint(form.gilded_stash), 3),
                 !.mem[ch].gearing_up = form.gearing_up,
                 !.mem[ch].quests = form.quests,
                 !.mem[ch].timewalk = ClampMax(IntOfUint(form.timewalk), 5)]
    IN character_set_notes(M4, ch, form.notes)

\* OK in the character dialog opened on store index e (0: the Add dialog)
DlgOk(e, form) ==
    /\ pc = "idle"
    /\ ~wst_str_empty(form.realm)
    /\ ~wst_str_empty(form.name)
    /\ IF e = 0
       THEN /\ Len(store) < MaxStore
            /\ \E ch \in {NewAddr(Memory)} :
               \E M \in {DlgStore(Materialize(Memory, ch, character_new), ch, form)} :
                  /\ mem' = M.mem
                  /\ str' = M.str
                  /\ store' = character_store_add(store, ch)
                  /\ capacity' = ensure_capacity(Len(store), capacity)
       ELSE /\ \E M \in {DlgStore(Memory, store[e], form)} :
                  mem' = M.mem /\ str' = M.str
            /\ UNCHANGED <<store, capacity>>
    /\ UNCHANGED <<pc, table, parseResult, srcKeys, idx, importedCount,
                   updatedCount, pre>>
    /\ UNCHANGED <<parserVars, hostVars>>

----------------------------------------------------------------------------
(* Inputs *)

\* the per-character table of the addon file: two snapshots that differ in every
\* field (1 and 2) and one without any field (3)
AddonTable(p) ==
    IF p = 1
    THEN LTab([guild |-> LStr(<<"G">>), item_level |-> LNum(700),
               heroic_items |-> LNum(1), champion_items |-> LNum(2),
               veteran_items |-> LNum(3), adventure_items |-> LNum(4),
               old_items |-> LNum(5), vault_visited |-> LBool(TRUE),
               gearing_up |-> LBool(TRUE), quests |-> LBool(TRUE),
               week_id |-> LStr(<<"1">>),
               upgrade_current |-> LNum(5), upgrade_max |-> LNum(8),
               vault_delves |-> LTab([count |-> LNum(3),
                                      tiers |-> LTab(<<>>, <<[k |-> 2, v |-> LNum(8)],
                                                             [k |-> 4, v |-> LNum(11)]>>)],
                                     <<>>),
               vault_dungeons |-> LTab([count |-> LNum(2),
                                        levels |-> LTab(<<>>, <<[k |-> 1, v |-> LNum(10)]>>)],
                                       <<>>),
               gilded_stash |-> LTab([claimed |-> LNum(1)], <<>>),
               timewalking_quest |-> LTab([completed |-> LBool(FALSE),
                                           progress |-> LNum(2)], <<>>),
               socket_info |-> LTab([socketable_count |-> LNum(3),
                                     socketed_count |-> LNum(1),
                                     empty_count |-> LNum(1),
                                     missing_sockets |->
                                         LTab(<<>>, <<[k |-> 1, v |-> LNum(1)],
                                                      [k |-> 2, v |-> LNum(6)]>>),
                                     empty_sockets |->
                                         LTab(<<>>, <<[k |-> 1, v |-> LNum(9)]>>)],
                                    <<>>),
               enchant_info |-> LTab([enchantable_count |-> LNum(8),
                                      enchant_count |-> LNum(5),
                                      missing_enchants |->
                                          LTab(<<>>, <<[k |-> 1, v |-> LNum(5)]>>)],
                                     <<>>),
               slot_upgrades |->
                   LTab(<<>>, <<[k |-> 1,
                                 v |-> LTab([slot |-> LNum(1), slot_name |-> LStr(<<"H">>),
                                             track |-> LStr(<<"T">>), current |-> LNum(5),
                                             max |-> LNum(8)], <<>>)]>>)],
              <<>>)
    ELSE IF p = 3 THEN LTab(<<>>, <<>>)
    ELSE LTab([guild |-> LStr(<<"g">>), item_level |-> LNum(650),
               heroic_items |-> LNum(6), champion_items |-> LNum(7),
               veteran_items |-> LNum(8), adventure_items |-> LNum(9),
               old_items |-> LNum(10), vault_visited |-> LBool(FALSE),
               gearing_up |-> LBool(FALSE), quests |-> LBool(FALSE),
               week_id |-> LStr(<<"2">>),
               upgrade_current |-> LNum(6), upgrade_max |-> LNum(9),
               vault_delves |-> LTab([count |-> LNum(5),
                                      tiers |-> LTab(<<>>, <<[k |-> 2, v |-> LNum(5)]>>)],
                                     <<>>),
               vault_dungeons |-> LTab([count |-> LNum(1),
                                        levels |-> LTab(<<>>, <<[k |-> 1, v |-> LNum(7)]>>)],
                                       <<>>),
               gilded_stash |-> LTab([claimed |-> LNum(2)], <<>>),
               timewalking_quest |-> LTab([completed |-> LBool(TRUE),
                                           progress |-> LNum(1)], <<>>),
               socket_info |-> LTab([socketable_count |-> LNum(2),
                                     socketed_count |-> LNum(2),
                                     empty_count |-> LNum(2),
                                     missing_sockets |-> LTab(<<>>, <<>>),
                                     empty_sockets |->
                                         LTab(<<>>, <<[k |-> 1, v |-> LNum(3)],
                                                      [k |-> 2, v |-> LNum(4)]>>)],
                                    <<>>),
               enchant_info |-> LTab([enchantable_count |-> LNum(8),
                                      enchant_count |-> LNum(7),
                                      missing_enchants |->
                                          LTab(<<>>, <<[k |-> 1, v |-> LNum(7)]>>)],
                                     <<>>),
               slot_upgrades |->
                   LTab(<<>>, <<[k |-> 1,
                                 v |-> LTab([slot |-> LNum(2), slot_name |-> LStr(<<"N">>),
                                             track |-> LStr(<<"V">>), current |-> LNum(1),
                                             max |-> LNum(6)], <<>>)]>>)],
              <<>>)

Snapshots == {1, 2, 3}

\* compound keys of the imported files: a plain key, the same in another case,
\* a leading dash (empty name) and a trailing dash (empty realm)
ImportKeys == {<<"A", "-", "R">>, <<"a", "-", "R">>, <<"-", "R">>, <<"A", "-">>}

\* the counts the dialog shows with SetDlgItemInt and reads with GetDlgItemInt
DlgCounts ==
    {"heroic_items", "champion_items", "veteran_items", "adventure_items",
     "old_items", "delves", "gilded_stash", "timewalk"}

\* what the user types into the notes field
DlgNotes == {<<"n">>}

\* the Add dialog filled in for the character A of realm R
AddForm(n) ==
    [f \in Fields |->
        IF f = "realm" THEN <<"R">>
        ELSE IF f = "name" THEN <<"A">>
        ELSE IF f = "notes" THEN n
        ELSE IF f \in DlgCounts THEN UintOfInt(character_new[f])
        ELSE character_new[f]]

\* the Edit dialog, which shows the character's fields, with the notes retyped
EditForm(e, n) ==
    LET c == View(Memory, store[e])
    IN [f \in Fields |->
           IF f = "notes" THEN n
           ELSE IF f \in DlgCounts THEN UintOfInt(c[f])
           ELSE c[f]]

----------------------------------------------------------------------------
(* The application: dialogs and imports on the store *)

\* nothing returned yet
NoRet == [call |-> "none"]

\* no parser call was made
InitParser ==
    /\ content = NullStr
    /\ lua = <<>>
    /\ world = {}
    /\ ret = NoRet

\* no file in the data directory
NoFile == [exists |-> FALSE, doc |-> <<>>]

NoFiles == [p \in {"data", "data.tmp", "notify", "notify.tmp"} |-> NoFile]

\* the config object without the key last_week_id
NoConfig == [last_week_id |-> NullStr]

\* a store just made by character_store_new, nothing on disk, the clock at the
\* epoch, in the Windows application
InitHost ==
    /\ capacity = INITIAL_CAPACITY
    /\ files = NoFiles
    /\ notifications = <<>>
    /\ config = NoConfig
    /\ clock = 0
    /\ build = "win32"

Init ==
    /\ mem = <<>>
    /\ str = <<>>
    /\ store = <<>>
    /\ pc = "idle"
    /\ table = <<>>
    /\ parseResult = <<>>
    /\ srcKeys = <<>>
    /\ idx = 0
    /\ importedCount = 0
    /\ updatedCount = 0
    /\ pre = NoPre
    /\ InitParser
    /\ InitHost

\* the characters of the imported files: A of realm R in either snapshot, the
\* others in the first
FileEntries ==
    {<<k, p>> \in ImportKeys \X Snapshots : p = 1 \/ k = <<"A", "-", "R">>}

FileEntry(e) == [key |-> e[1], val |-> AddonTable(e[2])]

\* an import of a file with one character
ImportOne == \E e \in FileEntries : ImportBegin(<<FileEntry(e)>>)

\* an import of a file with two characters, in either lua_next order
ImportTwo ==
    \E e1 \in FileEntries, e2 \in FileEntries :
        /\ e1[1] # e2[1]
        /\ ImportBegin(<<FileEntry(e1), FileEntry(e2)>>)

DlgAdd == \E n \in DlgNotes : DlgOk(0, AddForm(n))

DlgEdit == \E e \in 1..Len(store), n \in DlgNotes : DlgOk(e, EditForm(e, n))

Next ==
    \/ ImportOne
    \/ ImportTwo
    \/ MergeStep
    \/ ImportFree
    \/ ImportSave
    \/ DlgAdd
    \/ DlgEdit

Spec == Init /\ [][Next]_vars

----------------------------------------------------------------------------
(* The projection alone: lua_parser_parse_content on a characters table,   *)
(* then lua_parser_free_result, as the parser's callers and tests run it.  *)

KeyAlphabet == {"A", "b", "-"}

\* the compound keys of at most MaxKeyLen characters
AllKeys == UNION {[1..n -> KeyAlphabet] : n \in 0..MaxKeyLen}

\* the value of an entry of the characters table: a table, or a number
EntryValue(isTable) == IF isTable THEN AddonTable(1) ELSE LNum(7)

InitProject ==
    /\ mem = <<>>
    /\ str = <<>>
    /\ store = <<>>
    /\ pc = "parse"
    /\ \/ table = <<>>
       \/ \E k \in AllKeys, t \in BOOLEAN :
             table = <<[key |-> k, val |-> EntryValue(t)]>>
       \/ \E k1 \in AllKeys, k2 \in AllKeys, t1 \in BOOLEAN, t2 \in BOOLEAN :
             /\ k1 # k2
             /\ table = <<[key |-> k1, val |-> EntryValue(t1)],
                          [key |-> k2, val |-> EntryValue(t2)]>>
    /\ parseResult = <<>>
    /\ srcKeys = <<>>
    /\ idx = 0
    /\ importedCount = 0
    /\ updatedCount = 0
    /\ pre = NoPre
    /\ InitParser
    /\ InitHost

\* lua_parser_parse_content from the characters table on
ParseContent ==
    /\ pc = "parse"
    /\ \E res \in {ParseEntries(table)} :
       \E M \in {MaterializeAll(Memory, res, 1)} :
          /\ mem' = M.mem
          /\ str' = M.str
          /\ parseResult' = [j \in 1..Len(res) |-> ParseAddr(j)]
          /\ srcKeys' = [j \in 1..Len(res) |-> res[j].key]
    /\ pc' = "parsed"
    /\ UNCHANGED <<store, table, idx, importedCount, updatedCount, pre>>
    /\ UNCHANGED <<parserVars, hostVars>>
    /\ UNCHANGED capacity

\* lua_parser_free_result on the result
FreeResult ==
    /\ pc = "parsed"
    /\ \E M \in {FreeAll(Memory, parseResult)} :
          mem' = M.mem /\ str' = M.str
    /\ parseResult' = <<>>
    /\ pc' = "freed"
    /\ UNCHANGED <<store, table, srcKeys, idx, importedCount, updatedCount, pre>>
    /\ UNCHANGED <<parserVars, hostVars>>
    /\ UNCHANGED capacity

NextProject == ParseContent \/ FreeResult

SpecProject == InitProject /\ [][NextProject]_vars

----------------------------------------------------------------------------
(* Properties of the import merge *)

\* the views of the parse result's characters, in order
ParsedViews == [j \in 1..Len(parseResult) |-> View(Memory, parseResult[j])]

\* v and w name the same character: realm and name are equal, character by character
SameKey(v, w) == v.realm = w.realm /\ v.name = w.name

\* index of the first of views with the key of p, 0 when there is none
FirstMatch(views, p) ==
    LET hits == {k \in 1..Len(views) : SameKey(views[k], p)}
    IN IF hits = {} THEN 0 ELSE CHOOSE k \in hits : \A j \in hits : k <= j

\* no two of views have the same key
UniqueKeys(views) ==
    \A k1 \in 1..Len(views), k2 \in 1..Len(views) :
        SameKey(views[k1], views[k2]) => k1 = k2

\* some parsed character has the key of the k-th character the store held before
MatchedByParse(k) ==
    \E j \in 1..Len(parseResult) : SameKey(ParsedViews[j], pre.views[k])

\* C1: during and after the merge loop every character the store held before
\* is still the same struct at the same index, with the same realm, name and
\* notes; and if no parsed character has its key, every field of it is as before.
C1_MergeFrame ==
    pc \in {"merge", "free", "save"} =>
        /\ Len(store) >= Len(pre.ids)
        /\ \A k \in 1..Len(pre.ids) :
              /\ store[k] = pre.ids[k]
              /\ StoreViews[k].notes = pre.views[k].notes
              /\ SameKey(StoreViews[k], pre.views[k])
              /\ (pc # "save" /\ ~MatchedByParse(k)) => StoreViews[k] = pre.views[k]

\* the merge is over; it updated a character that has notes and left another alone
C1_Witness ==
    /\ pc = "free"
    /\ \E k1 \in 1..Len(pre.ids), k2 \in 1..Len(pre.ids) :
          /\ MatchedByParse(k1)
          /\ pre.views[k1].notes # EmptyStr
          /\ StoreViews[k1] # pre.views[k1]
          /\ ~MatchedByParse(k2)

\* the addresses of the strings the structs ids point to
StringsOf(ids) ==
    {mem[ids[k]][f] : k \in {j \in 1..Len(ids) : ids[j] \in DOMAIN mem}, f \in StrFields}
        \ {NULL}

\* the store and the parse result share neither a struct nor a string, and every
\* struct and string the store points to is live
NoAlias ==
    /\ \A k \in 1..Len(store), j \in 1..Len(parseResult) : store[k] # parseResult[j]
    /\ StringsOf(store) \cap StringsOf(parseResult) = {}
    /\ \A k \in 1..Len(store) : store[k] \in DOMAIN mem
    /\ StringsOf(store) \subseteq DOMAIN str

\* C2: the store never shares a struct or a string with the parse result, so no
\* write through the parse result reaches it; and lua_parser_free_result after
\* the merge changes no field of any character in the store.
C2_NoAliasing ==
    [][NoAlias' /\ (pc = "free" => StoreViews' = StoreViews)]_vars

\* the parse result was released after the merge inserted a character that has
\* every string field set
C2_Witness ==
    /\ pc = "save"
    /\ importedCount >= 1
    /\ \A f \in StrFields \ {"notes"} :
          StoreViews[Len(store)][f] \notin {NullStr, EmptyStr, FreedStr}

\* C3: after the merge loop, the first character the store held before with the
\* key of a parsed character has that character's guild, item_level, five item
\* counts, vault_visited, delves, gilded_stash, gearing_up, quests and timewalk.
C3_UpdateOverwrites ==
    pc = "free" =>
        \A j \in 1..Len(parseResult) :
            LET k == FirstMatch(pre.views, ParsedViews[j])
            IN k > 0 => \A f \in OldAddonFields : StoreViews[k][f] = ParsedViews[j][f]

\* the merge updated a character all of whose listed fields differed from the parsed ones
C3_Witness ==
    /\ pc = "free"
    /\ \E j \in 1..Len(parseResult) :
          LET k == FirstMatch(pre.views, ParsedViews[j])
          IN /\ k > 0
             /\ \A f \in OldAddonFields : pre.views[k][f] # ParsedViews[j][f]

\* C4 (as claimed): after the merge loop, the first character the store held
\* before with the key of a parsed character also has that character's
\* upgrade_current, upgrade_max, socket and enchant gap counts, four per-slot
\* strings and week_id.
C4_UpdateRefreshesNewFields ==
    pc = "free" =>
        \A j \in 1..Len(parseResult) :
            LET k == FirstMatch(pre.views, ParsedViews[j])
            IN k > 0 => \A f \in NewAddonFields : StoreViews[k][f] = ParsedViews[j][f]

\* C5 (as claimed): after the merge loop, for every parsed character whose key
\* the store did not hold before, the store holds a new entry equal to it in
\* every field.
C5_InsertEqualsParsed ==
    pc = "free" =>
        \A j \in 1..Len(parseResult) :
            FirstMatch(pre.views, ParsedViews[j]) = 0 =>
                \E k \in (Len(pre.ids) + 1)..Len(store) : StoreViews[k] = ParsedViews[j]

\* C6: if no two characters of the store had the same realm and name when the
\* merge began, none have during or after it.
C6_KeysStayUnique ==
    (pc \in {"merge", "free", "save"} /\ UniqueKeys(pre.views)) => UniqueKeys(StoreViews)

\* a merge on a store with unique keys both inserted and updated
C6_Witness ==
    /\ pc = "free"
    /\ UniqueKeys(pre.views)
    /\ importedCount >= 1
    /\ updatedCount >= 1

\* the k-th character of the store is not changed by the step
SameEntry(k) == store'[k] = store[k] /\ StoreViews'[k] = StoreViews[k]

\* C7: an iteration of the merge loop updates the first character of the store
\* whose realm and name equal the parsed character's exactly, and counts it in
\* updatedCount; when there is none it appends one character with that realm
\* and name and counts it in importedCount; nothing else changes, and the store
\* has grown by importedCount since the merge began.
C7_Classification ==
    [][pc = "merge" =>
        LET p == ParsedViews[idx]
            k == FirstMatch(StoreViews, p)
        IN /\ IF k > 0
              THEN /\ Len(store') = Len(store)
                   /\ \A m \in 1..Len(store) : m # k => SameEntry(m)
                   /\ store'[k] = store[k]
                   /\ StoreViews'[k].item_level = p.item_level
                   /\ updatedCount' = updatedCount + 1
                   /\ importedCount' = importedCount
              ELSE /\ Len(store') = Len(store) + 1
                   /\ \A m \in 1..Len(store) : SameEntry(m)
                   /\ SameKey(StoreViews'[Len(store')], p)
                   /\ updatedCount' = updatedCount
                   /\ importedCount' = importedCount + 1
           /\ Len(store') = Len(pre.ids) + importedCount'
           /\ importedCount' + updatedCount' = idx]_vars

\* one merge inserted the character a of realm R next to A of realm R, which it updated
C7_Witness ==
    /\ pc = "free"
    /\ importedCount = 1
    /\ updatedCount = 1
    /\ \E k1 \in 1..Len(store), k2 \in 1..Len(store) :
          /\ StoreViews[k1].name = <<"A">>
          /\ StoreViews[k2].name = <<"a">>
          /\ StoreViews[k1].realm = StoreViews[k2].realm

\* C8 (as claimed): after the merge loop, the characters counted are the parsed
\* ones with a non-empty name and a non-empty realm, and no character with an
\* empty name or realm has been added to the store.
C8_EmptyKeySkipped ==
    pc = "free" =>
        /\ importedCount + updatedCount =
              Cardinality({j \in 1..Len(parseResult) :
                              /\ ~wst_str_empty(ParsedViews[j].name)
                              /\ ~wst_str_empty(ParsedViews[j].realm)})
        /\ \A k \in (Len(pre.ids) + 1)..Len(store) :
              /\ ~wst_str_empty(StoreViews[k].name)
              /\ ~wst_str_empty(StoreViews[k].realm)

----------------------------------------------------------------------------
(* Properties of the projection *)

HasDash(key) == \E k \in 1..Len(key) : key[k] = "-"

\* an entry of the characters table that is to yield a character
ValidEntry(e) == HasDash(e.key) /\ lua_istable(e.val)

C10_SplitRoundTrip ==
    pc = "parsed" =>
        \A e \in 1..Len(table) :
            LET key == table[e].key
            IN \A d \in 1..Len(key) :
                  (/\ lua_istable(table[e].val)
                   /\ key[d] = "-"
                   /\ \A m \in (d + 1)..Len(key) : key[m] # "-")
                  => \E j \in 1..Len(parseResult) :
                        /\ srcKeys[j] = key
                        /\ ParsedViews[j].name = SubSeq(key, 1, d - 1)
                        /\ ParsedViews[j].realm = SubSeq(key, d + 1, Len(key))

\* one character projected with an empty name, one with a dash in its name
C10_Witness ==
    /\ pc = "parsed"
    /\ \E j1 \in 1..Len(parseResult), j2 \in 1..Len(parseResult) :
          /\ ParsedViews[j1].name = EmptyStr
          /\ ParsedViews[j1].realm # EmptyStr
          /\ HasDash(ParsedViews[j2].name)
          /\ ParsedViews[j2].realm # EmptyStr


----------------------------------------------------------------------------
(* The projection of one character's fields: lua_parser_parse_content on a *)
(* characters table with the one entry "A-R", whose value is drawn from     *)
(* the families below.                                                      *)

\* the table constructor {k1 = v1, ...}: a field given as nil is not in the table
Tab(rec) == LTab([k \in {x \in DOMAIN rec : rec[x].t # "nil"} |-> rec[k]], <<>>)

\* values of gearing_up: absent, a boolean, a number
GearingUps == {Nil, LBool(TRUE), LBool(FALSE), LNum(1)}

\* values of vault_delves.count
DelveCounts == {Nil, LNum(0), LNum(1), LNum(5), LNum(8), LBool(TRUE)}

DelveTables ==
    {Tab([gearing_up |-> g, vault_delves |-> v]) :
        g \in GearingUps,
        v \in {Nil, LNum(3)} \cup {Tab([count |-> c]) : c \in DelveCounts}}

\* values of timewalking_quest.completed and .progress
TimewalkFlags == {Nil, LBool(TRUE), LBool(FALSE), LNum(1)}

TimewalkProgress == {Nil, LNum(0), LNum(3), LBool(TRUE)}

TimewalkTables ==
    {Tab([timewalking_quest |-> q]) :
        q \in {Nil, LNum(3)}
              \cup {Tab([completed |-> d, progress |-> p]) :
                        d \in TimewalkFlags, p \in TimewalkProgress}}

\* a value of each Lua type
TypedValues ==
    {LNum(123), LStr(<<"7", "1", "5">>), LStr(<<"x">>), LBool(TRUE), Tab([count |-> LNum(2)])}

\* the fields read with each extractor
StringKeys == {"guild", "week_id"}

NumberKeys == {"item_level", "heroic_items", "champion_items", "veteran_items",
               "adventure_items", "old_items", "upgrade_current", "upgrade_max"}

BoolKeys == {"vault_visited", "gearing_up", "quests"}

NestedKeys == {"vault_delves", "vault_dungeons", "gilded_stash", "timewalking_quest",
               "socket_info", "enchant_info"}

\* tables with one recognized field, of any type
TypedTables ==
    {LTab([k \in {key} |-> v], <<>>) :
        key \in StringKeys \cup NumberKeys \cup BoolKeys \cup NestedKeys, v \in TypedValues}

\* tiers and levels tables: { [2] = 8, [4] = 11 }, { [2] = 5, [4] = 7 }, one with a
\* string key, one with values that are not numbers, the empty one
TierTables ==
    {LTab(<<>>, <<[k |-> 2, v |-> LNum(8)], [k |-> 4, v |-> LNum(11)]>>),
     LTab(<<>>, <<[k |-> 2, v |-> LNum(5)], [k |-> 4, v |-> LNum(7)]>>),
     LTab([x |-> LNum(9)], <<[k |-> 7, v |-> LNum(7)]>>),
     LTab([x |-> LBool(TRUE)], <<[k |-> 1, v |-> LStr(<<"x">>)], [k |-> 2, v |-> LNum(10)]>>),
     LTab(<<>>, <<>>)}

VaultTables ==
    {Tab([vault_delves |-> d, vault_dungeons |-> g]) :
        d \in {Nil, LNum(9)} \cup {Tab([tiers |-> t]) : t \in {Nil, LNum(9)} \cup TierTables},
        g \in {Nil, LNum(9)} \cup {Tab([levels |-> t]) : t \in {Nil, LNum(9)} \cup TierTables}}

\* socket_info and enchant_info counts
GapCounts == {Nil, LNum(1), LNum(3)}

GapTables ==
    {Tab([socket_info |-> s, enchant_info |-> e]) :
        s \in {Nil} \cup {Tab([socketable_count |-> a, socketed_count |-> b,
                               empty_count |-> c]) :
                              a \in GapCounts, b \in GapCounts, c \in {Nil, LNum(2)}},
        e \in {Nil} \cup {Tab([enchantable_count |-> a, enchant_count |-> b]) :
                              a \in {Nil, LNum(8)}, b \in {Nil, LNum(5), LNum(9)}}}

FieldTables == DelveTables \cup TimewalkTables \cup TypedTables \cup VaultTables \cup GapTables

InitFields ==
    /\ mem = <<>>
    /\ str = <<>>
    /\ store = <<>>
    /\ pc = "parse"
    /\ \E t \in FieldTables : table = <<[key |-> <<"A", "-", "R">>, val |-> t]>>
    /\ parseResult = <<>>
    /\ srcKeys = <<>>
    /\ idx = 0
    /\ importedCount = 0
    /\ updatedCount = 0
    /\ pre = NoPre
    /\ InitParser
    /\ InitHost

SpecFields == InitFields /\ [][NextProject]_vars


----------------------------------------------------------------------------
(* Properties of the projected fields *)

\* the table the one character is projected from
Entry == table[1].val

\* the value the table t holds under key, nil when it holds none
Field(t, key) == IF key \in DOMAIN t.f THEN t.f[key] ELSE Nil

\* the value under key of the table t holds under outer, nil when t.outer is no table
Nested(t, outer, key) ==
    IF Field(t, outer).t = "tab" THEN Field(Field(t, outer), key) ELSE Nil

IsTrue(v) == v.t = "bool" /\ v.v

\* C11: when vault_delves.count is a number c >= 0, the projected delves is c - 1
\* if gearing_up is true and c > 0, and c otherwise, so it is not negative; when
\* vault_delves.count is absent the projected delves is 0.
C11_DelveDerivation ==
    pc = "parsed" =>
        LET c == Nested(Entry, "vault_delves", "count")
            delves == ParsedViews[1].delves
        IN /\ (c.t = "num" /\ c.v >= 0) =>
                 /\ delves = IF IsTrue(Field(Entry, "gearing_up")) /\ c.v > 0
                             THEN c.v - 1 ELSE c.v
                 /\ delves >= 0
           /\ c.t = "nil" => delves = 0

\* gearing_up is true and the count is 0: the projected delves is 0
C11_Witness ==
    /\ pc = "parsed"
    /\ IsTrue(Field(Entry, "gearing_up"))
    /\ Nested(Entry, "vault_delves", "count") = LNum(0)
    /\ ParsedViews[1].delves = 0


\* C12 (as claimed): the projected timewalk is 5 when timewalking_quest.completed
\* is true; when completed is false or absent it is timewalking_quest.progress if
\* that is a number, and 0 if progress is absent.
C12_TimewalkDerivation ==
    pc = "parsed" =>
        LET done == Nested(Entry, "timewalking_quest", "completed")
            progress == Nested(Entry, "timewalking_quest", "progress")
            timewalk == ParsedViews[1].timewalk
        IN /\ IsTrue(done) => timewalk = WST_MAX_TIMEWALK
           /\ (done.t = "nil" \/ (done.t = "bool" /\ ~done.v)) =>
                 /\ progress.t = "num" => timewalk = progress.v
                 /\ progress.t = "nil" => timewalk = 0


\* the Character fields derived from each nested table
NestedTargets ==
    [vault_delves |-> {"delves"}, vault_dungeons |-> {"dungeons"},
     gilded_stash |-> {"gilded_stash"}, timewalking_quest |-> {"timewalk"},
     socket_info |-> {"socket_missing_count", "socket_empty_count"},
     enchant_info |-> {"enchant_missing_count"}]

\* C13 (as claimed): a field read with the string extractor is stored only when
\* the table holds a string under its key, one read with the number extractor
\* only when it holds a number, one read with the boolean extractor only when it
\* holds a boolean, one read with a nested extractor only when the outer key
\* holds a table; with a value of any other type the Character keeps the default
\* of that field, and a character is projected in every case.
C13_TypeMismatchAbsent ==
    pc = "parsed" =>
        /\ Len(parseResult) = 1
        /\ \A key \in StringKeys :
              Field(Entry, key).t # "str" => ParsedViews[1][key] = character_new[key]
        /\ \A key \in NumberKeys :
              Field(Entry, key).t # "num" => ParsedViews[1][key] = character_new[key]
        /\ \A key \in BoolKeys :
              Field(Entry, key).t # "bool" => ParsedViews[1][key] = character_new[key]
        /\ \A key \in NestedKeys :
              Field(Entry, key).t # "tab" =>
                  \A f \in NestedTargets[key] : ParsedViews[1][f] = character_new[f]


\* the number of entries of the table v, under any key, whose value is a number
\* of at least 8; 0 when v is no table
HighEntries(v) ==
    IF v.t # "tab" THEN 0
    ELSE Cardinality({k \in 1..Len(v.a) : v.a[k].v.t = "num" /\ v.a[k].v.v >= 8})
         + Cardinality({k \in DOMAIN v.f : v.f[k].t = "num" /\ v.f[k].v >= 8})

CountOr0(t, outer, key) ==
    IF Nested(t, outer, key).t = "num" THEN Nested(t, outer, key).v ELSE 0

\* C19: the projected socket_missing_count is socketable_count - socketed_count
\* and enchant_missing_count is enchantable_count - enchant_count, an absent
\* operand counting 0 and a negative difference kept; socket_empty_count is
\* empty_count.
C19_GapMath ==
    pc = "parsed" =>
        /\ ParsedViews[1].socket_missing_count =
               CountOr0(Entry, "socket_info", "socketable_count")
               - CountOr0(Entry, "socket_info", "socketed_count")
        /\ ParsedViews[1].enchant_missing_count =
               CountOr0(Entry, "enchant_info", "enchantable_count")
               - CountOr0(Entry, "enchant_info", "enchant_count")
        /\ ParsedViews[1].socket_empty_count = CountOr0(Entry, "socket_info", "empty_count")

\* more sockets filled than socketable and an absent enchantable_count: both
\* gaps are negative
C19_Witness ==
    /\ pc = "parsed"
    /\ Nested(Entry, "socket_info", "socketable_count") = LNum(1)
    /\ Nested(Entry, "socket_info", "socketed_count") = LNum(3)
    /\ Nested(Entry, "enchant_info", "enchantable_count").t = "nil"
    /\ Nested(Entry, "enchant_info", "enchant_count") = LNum(5)
    /\ ParsedViews[1].socket_missing_count = 0 - 2
    /\ ParsedViews[1].enchant_missing_count = 0 - 5
    /\ ParsedViews[1].socket_empty_count = 2


----------------------------------------------------------------------------
(* The text of a save file.  A text is a sequence of bytes; the bytes of   *)
(* the UTF-8 byte order mark are written "EF", "BB" and "BF".              *)

\* the bytes strip_prefix skips at the start of the text
SkippedBytes == {" ", "\t", "\r", "\n", "EF", "BB", "BF"}

\* "WoWStatTrackerDB = "
Prefix ==
    <<"W", "o", "W", "S", "t", "a", "t", "T", "r", "a", "c", "k", "e", "r",
          "D", "B", " ", "=", " ">>

\* strncmp(s, p, strlen(p)) == 0
StartsWith(s, p) == Len(s) >= Len(p) /\ SubSeq(s, 1, Len(p)) = p

\* s from position k on
From(s, k) == SubSeq(s, k, Len(s))

\* the loop of strip_prefix: s without its leading run of skipped bytes
RECURSIVE SkipLeading(_)
SkipLeading(s) ==
    IF Len(s) > 0 /\ s[1] \in SkippedBytes THEN SkipLeading(Tail(s)) ELSE s

\* strip_prefix looking for the prefix at the very start of the text only
strip_prefix_nolead(text) ==
    IF StartsWith(text, Prefix) THEN From(text, Len(Prefix) + 1) ELSE text

strip_prefix(text) ==
    LET c == SkipLeading(text)
    IN IF StartsWith(c, Prefix) THEN From(c, Len(Prefix) + 1) ELSE c

----------------------------------------------------------------------------
(* The interpreter.  luaL_dostring runs a chunk; the chunks the model can  *)
(* run are listed with what running them yields: the values they return    *)
(* and what they do outside the interpreter.  Any other text is a syntax   *)
(* error.                                                                  *)

\* the libraries luaL_openlibs opens
StandardLibs == {"base", "package", "coroutine", "table", "io", "os", "string",
                 "math", "utf8", "debug"}

\* the libraries through which a chunk reaches files and the process
OutsideLibs == {"io", "os"}

\* a file handle
LUser == [t |-> "userdata"]

\* the characters table { [k1] = v1, ... }: its entries in lua_next order, each key
\* a Lua value
CharsTab(entries) == LTab(<<>>, entries)

CharEntry(key, val) == [k |-> key, v |-> val]

KeyAR == LStr(<<"A", "-", "R">>)

\* what a chunk does: the values it returns; the library it calls, if any, and
\* what that call does outside the interpreter
Pure(vals) == [vals |-> vals, lib |-> "base", effect |-> "none"]

Calls(lib, effect, vals) == [vals |-> vals, lib |-> lib, effect |-> effect]

\* the empty text
T_EMPTY ==
    <<>>
\* 5
T_NUM ==
    <<"5">>
\* {}
T_TABLE ==
    <<"{", "}">>
\* {metadata={version="1"}}
T_VERSION ==
    <<"{", "m", "e", "t", "a", "d", "a", "t", "a", "=", "{", "v", "e", "r",
          "s", "i", "o", "n", "=", "\"", "1", "\"", "}", "}">>
\* {characters=5}
T_CHARS_NUM ==
    <<"{", "c", "h", "a", "r", "a", "c", "t", "e", "r", "s", "=", "5", "}">>
\* {characters={}}
T_CHARS_EMPTY ==
    <<"{", "c", "h", "a", "r", "a", "c", "t", "e", "r", "s", "=", "{", "}",
          "}">>
\* {characters={["A-R"]={guild="G"}}}
T_CHARS_ONE ==
    <<"{", "c", "h", "a", "r", "a", "c", "t", "e", "r", "s", "=", "{", "[",
          "\"", "A", "-", "R", "\"", "]", "=", "{", "g", "u", "i", "l", "d",
          "=", "\"", "G", "\"", "}", "}", "}">>
\* {metadata={version="1"},characters={["A-R"]={guild="G"}}}
T_FULL ==
    <<"{", "m", "e", "t", "a", "d", "a", "t", "a", "=", "{", "v", "e", "r",
          "s", "i", "o", "n", "=", "\"", "1", "\"", "}", ",", "c", "h", "a",
          "r", "a", "c", "t", "e", "r", "s", "=", "{", "[", "\"", "A", "-",
          "R", "\"", "]", "=", "{", "g", "u", "i", "l", "d", "=", "\"", "G",
          "\"", "}", "}", "}">>
\* {characters={{}}}
T_CHARS_ARRAY ==
    <<"{", "c", "h", "a", "r", "a", "c", "t", "e", "r", "s", "=", "{", "{",
          "}", "}", "}">>
\* {characters={5,["A-R"]={guild="G"}}}
T_CHARS_NUMS ==
    <<"{", "c", "h", "a", "r", "a", "c", "t", "e", "r", "s", "=", "{", "5",
          ",", "[", "\"", "A", "-", "R", "\"", "]", "=", "{", "g", "u", "i",
          "l", "d", "=", "\"", "G", "\"", "}", "}", "}">>
\* io.open("x","w")
T_IO_OPEN ==
    <<"i", "o", ".", "o", "p", "e", "n", "(", "\"", "x", "\"", ",", "\"",
          "w", "\"", ")">>
\* os.exit()
T_OS_EXIT ==
    <<"o", "s", ".", "e", "x", "i", "t", "(", ")">>
\* {{
T_INVALID ==
    <<"{", "{">>

VersionTable == Tab([version |-> LStr(<<"1">>)])

GuildTable == Tab([guild |-> LStr(<<"G">>)])

\* the chunks, each with the expression after "return "
Chunks ==
    <<[text |-> T_EMPTY, run |-> Pure(<<>>)],
     [text |-> T_NUM, run |-> Pure(<<LNum(5)>>)],
     [text |-> T_TABLE, run |-> Pure(<<Tab(<<>>)>>)],
     [text |-> T_VERSION, run |-> Pure(<<Tab([metadata |-> VersionTable])>>)],
     [text |-> T_CHARS_NUM, run |-> Pure(<<Tab([characters |-> LNum(5)])>>)],
     [text |-> T_CHARS_EMPTY, run |-> Pure(<<Tab([characters |-> CharsTab(<<>>)])>>)],
     [text |-> T_CHARS_ONE,
      run |-> Pure(<<Tab([characters |-> CharsTab(<<CharEntry(KeyAR, GuildTable)>>)])>>)],
     [text |-> T_FULL,
      run |-> Pure(<<Tab([metadata |-> VersionTable,
                          characters |-> CharsTab(<<CharEntry(KeyAR, GuildTable)>>)])>>)],
     [text |-> T_CHARS_ARRAY,
      run |-> Pure(<<Tab([characters |-> CharsTab(<<CharEntry(LNum(1), Tab(<<>>))>>)])>>)],
     [text |-> T_CHARS_NUMS,
      run |-> Pure(<<Tab([characters |->
                            CharsTab(<<CharEntry(LNum(1), LNum(5)),
                                       CharEntry(KeyAR, GuildTable)>>)])>>)],
     [text |-> T_IO_OPEN, run |-> Calls("io", "file x written", <<LUser>>)],
     [text |-> T_OS_EXIT, run |-> Calls("os", "process exited", <<>>)]>>


\* the characters Lua's lexer skips
LuaSpace == {" ", "\t", "\r", "\n"}

RECURSIVE SkipSpace(_)
SkipSpace(s) == IF Len(s) > 0 /\ s[1] \in LuaSpace THEN SkipSpace(Tail(s)) ELSE s

\* "return "
ReturnText == <<"r", "e", "t", "u", "r", "n", " ">>

\* snprintf(script, script_len, "return %s", table_content)
Script(table_content) == ReturnText \o table_content

\* luaL_dostring(L, script) in an interpreter with the libraries libs: "error"
\* for a syntax error or a call into a library that is not there, "exited" when
\* the chunk ended the process, else "ok" with the returned values
luaL_dostring(libs, script) ==
    LET expr == SkipSpace(From(script, Len(ReturnText) + 1))
        known == {k \in 1..Len(Chunks) : Chunks[k].text = expr}
        failed == [status |-> "error", vals |-> <<>>, effect |-> "none"]
    IN IF known = {} THEN failed
       ELSE LET run == Chunks[CHOOSE k \in known : TRUE].run
            IN IF run.lib \notin libs THEN failed
               ELSE [status |-> IF run.effect = "process exited" THEN "exited" ELSE "ok",
                     vals |-> run.vals, effect |-> run.effect]

\* the loop of lua_parser_parse_content over the entries of the characters
\* table, each key a Lua value.  lua_tostring turns a number key into a string
\* where it stands, and the lua_next that follows raises "invalid key to 'next'".
RECURSIVE WalkCharacters(_)
WalkCharacters(entries) ==
    IF Len(entries) = 0 THEN [error |-> FALSE, res |-> <<>>]
    ELSE LET e == Head(entries)
             visit == lua_isstring(e.k) /\ lua_istable(e.v)
             c == IF visit THEN parse_character(e.v, lua_tostring(e.k)) ELSE <<>>
             mine == IF Len(c) = 0 THEN <<>>
                     ELSE <<[key |-> lua_tostring(e.k), c |-> c[1]]>>
         IN IF visit /\ e.k.t = "num" THEN [error |-> TRUE, res |-> mine]
            ELSE LET rest == WalkCharacters(Tail(entries))
                 IN [error |-> rest.error, res |-> mine \o rest.res]

\* how a call of lua_parser_parse_content ends: "returned", or the process
\* "aborted" (an error raised outside a protected call) or "exited"; closes is
\* the number of lua_close calls made, array whether result.characters was
\* allocated, res the characters stored in it
Ended(end, closes, effect, array, res, addon_version) ==
    [end |-> end, closes |-> closes, effect |-> effect, array |-> array, res |-> res,
     addon_version |-> addon_version]

\* lua_parser_parse_content allocating the array before it looks at the result
Evaluate_early(libs, text) ==
    LET done == luaL_dostring(libs, Script(strip_prefix(text)))
        top == IF Len(done.vals) = 0 THEN Nil ELSE done.vals[Len(done.vals)]
    IN IF done.status = "exited"
       THEN Ended("exited", 0, done.effect, FALSE, <<>>, NullStr)
       ELSE IF done.status = "error"
       THEN Ended("returned", 1, done.effect, FALSE, <<>>, NullStr)
       ELSE IF ~lua_istable(top)
       THEN Ended("returned", 1, done.effect, TRUE, <<>>, NullStr)
       ELSE LET metadata == lua_getfield(top, "metadata")
                version == IF lua_istable(metadata)
                           THEN get_lua_string(metadata, "version") ELSE Absent
                characters == lua_getfield(top, "characters")
            IN IF ~lua_istable(characters)
               THEN Ended("returned", 1, done.effect, TRUE, <<>>, OrElse(version, NullStr))
               ELSE LET w == WalkCharacters(characters.a)
                    IN IF w.error
                       THEN Ended("aborted", 0, done.effect, TRUE, <<>>,
                                  OrElse(version, NullStr))
                       ELSE Ended("returned", 1, done.effect, TRUE, w.res,
                                  OrElse(version, NullStr))

\* lua_parser_parse_content from luaL_dostring on, in an interpreter with the
\* libraries libs.  The value at index -1 of an empty stack is the nil below it.
Evaluate(libs, text) ==
    LET done == luaL_dostring(libs, Script(strip_prefix(text)))
        top == IF Len(done.vals) = 0 THEN Nil ELSE done.vals[Len(done.vals)]
    IN IF done.status = "exited"
       THEN Ended("exited", 0, done.effect, FALSE, <<>>, NullStr)
       ELSE IF done.status = "error"
       THEN Ended("returned", 1, done.effect, FALSE, <<>>, NullStr)
       ELSE IF ~lua_istable(top)
       THEN Ended("returned", 1, done.effect, FALSE, <<>>, NullStr)
       ELSE LET metadata == lua_getfield(top, "metadata")
                version == IF lua_istable(metadata)
                           THEN get_lua_string(metadata, "version") ELSE Absent
                characters == lua_getfield(top, "characters")
            IN IF ~lua_istable(characters)
               THEN Ended("returned", 1, done.effect, FALSE, <<>>, OrElse(version, NullStr))
               ELSE LET w == WalkCharacters(characters.a)
                    IN IF w.error
                       THEN Ended("aborted", 0, done.effect, TRUE, <<>>,
                                  OrElse(version, NullStr))
                       ELSE Ended("returned", 1, done.effect, TRUE, w.res,
                                  OrElse(version, NullStr))


----------------------------------------------------------------------------
(* Calls of lua_parser_parse_content on texts, one after the other; the    *)
(* caller keeps every result.                                              *)

\* most calls that create an interpreter
MaxCalls == 2

\* the structs of a parse result, allocated after the base structs still held
RECURSIVE MaterializeFrom(_, _, _, _)
MaterializeFrom(M, res, j, base) ==
    IF j > Len(res) THEN M
    ELSE MaterializeFrom(Materialize(M, ParseAddr(base + j), res[j].c), res, j + 1, base)

\* LuaParseResult result = {0}
ParseRet(array, count, addon_version) ==
    [call |-> "parse", array |-> array, count |-> count, addon_version |-> addon_version]

\* lua_parser_parse_content(text) up to luaL_openlibs
ParseCall(text) ==
    /\ pc = "idle"
    /\ Len(lua) < MaxCalls
    /\ content' = text
    /\ pre' = [ids |-> pre.ids \o parseResult, views |-> pre.views \o ParsedViews]
    /\ parseResult' = <<>>
    /\ srcKeys' = <<>>
    /\ IF text = NullStr
       THEN /\ ret' = ParseRet(FALSE, 0, NullStr)
            /\ pc' = "returned"
            /\ UNCHANGED lua
       ELSE /\ lua' = Append(lua, [libs |-> StandardLibs, closed |-> 0])
            /\ ret' = NoRet
            /\ pc' = "run"
    /\ UNCHANGED <<mem, str, store, table, idx, importedCount, updatedCount, world>>
    /\ UNCHANGED <<capacity, hostVars>>

\* the rest of lua_parser_parse_content
ParseRun ==
    /\ pc = "run"
    /\ \E r \in {Evaluate(lua[Len(lua)].libs, content)} :
       \E M \in {MaterializeFrom(Memory, r.res, 1, Len(pre.ids))} :
          /\ mem' = M.mem
          /\ str' = M.str
          /\ parseResult' = [j \in 1..Len(r.res) |-> ParseAddr(Len(pre.ids) + j)]
          /\ srcKeys' = [j \in 1..Len(r.res) |-> r.res[j].key]
          /\ lua' = [lua EXCEPT ![Len(lua)].closed = @ + r.closes]
          /\ world' = world \cup ({r.effect} \ {"none"})
          /\ ret' = IF r.end = "returned"
                    THEN ParseRet(r.array, Len(r.res), r.addon_version) ELSE NoRet
          /\ pc' = r.end
    /\ UNCHANGED <<store, table, idx, importedCount, updatedCount, pre, content>>
    /\ UNCHANGED <<capacity, hostVars>>

\* the caller takes the result
ParseReturn ==
    /\ pc = "returned"
    /\ pc' = "idle"
    /\ content' = NullStr
    /\ ret' = NoRet
    /\ UNCHANGED <<mem, str, store, table, parseResult, srcKeys, idx, importedCount,
                   updatedCount, pre, lua, world>>
    /\ UNCHANGED <<capacity, hostVars>>

\* what stands before the literal in a text
Leads == {<<>>, <<" ">>, <<"EF", "BB", "BF">>}

Gaps == {<<>>, <<"\n">>, <<"BF">>}

Bodies == {Chunks[k].text : k \in 1..Len(Chunks)} \cup {T_INVALID}

\* the texts parsed: a literal, after leading bytes, the prefix, more bytes and
\* the prefix again, each of them or none; and no text at all
Texts ==
    {l \o p \o g \o q \o b :
        l \in Leads, p \in {<<>>, Prefix}, g \in Gaps, q \in {<<>>, Prefix}, b \in Bodies}
    \cup {NullStr}

InitContent ==
    /\ mem = <<>>
    /\ str = <<>>
    /\ store = <<>>
    /\ pc = "idle"
    /\ table = <<>>
    /\ parseResult = <<>>
    /\ srcKeys = <<>>
    /\ idx = 0
    /\ importedCount = 0
    /\ updatedCount = 0
    /\ pre = NoPre
    /\ InitParser
    /\ InitHost

ParseText == \E text \in Texts : ParseCall(text)

NextContent == ParseText \/ ParseRun \/ ParseReturn

SpecContent == InitContent /\ [][NextContent]_vars


----------------------------------------------------------------------------
(* Properties of lua_parser_parse_content on texts *)

\* what evaluating the literal of a text yields
Ran(text) == luaL_dostring(StandardLibs, Script(strip_prefix(text)))

\* the value a run returned, nil when it returned none
Returned(run) == IF Len(run.vals) = 0 THEN Nil ELSE run.vals[Len(run.vals)]

\* a text that fails as a whole: no or empty text, no valid literal, a literal
\* whose value is no table, a table without a characters table
WholeFileFailure(text) ==
    \/ text = NullStr
    \/ text = EmptyStr
    \/ Ran(text).status = "error"
    \/ /\ Ran(text).status = "ok"
       /\ \/ Returned(Ran(text)).t # "tab"
          \/ Field(Returned(Ran(text)), "characters").t # "tab"

\* a call has ended
CallEnded == pc \in {"returned", "aborted", "exited"}

\* C14: a call on a text that fails as a whole returns, with count 0 and no
\* character array.
C14_WholeFileFailure ==
    (CallEnded /\ WholeFileFailure(content)) =>
        /\ pc = "returned"
        /\ ret.count = 0
        /\ ~ret.array
        /\ parseResult = <<>>

\* a prefixed table with metadata and no characters table came back empty
C14_Witness ==
    /\ pc = "returned"
    /\ content = Prefix \o T_VERSION
    /\ ret.count = 0
    /\ ~ret.array
    /\ ret.addon_version = <<"1">>

\* the text begins, after bytes that strip_prefix skips, with the prefix
Prefixed(text) == text # NullStr /\ StartsWith(SkipLeading(text), Prefix)

\* what follows the prefix of a prefixed text
AfterPrefix(text) == From(SkipLeading(text), Len(Prefix) + 1)

\* a prefixed text with the prefix removed
PrefixRemoved(text) ==
    SubSeq(text, 1, Len(text) - Len(SkipLeading(text))) \o AfterPrefix(text)

\* the call that returned yielded the characters and the version that parsing
\* the text other yields
SameAsParsing(other) ==
    LET r == Evaluate(StandardLibs, other)
    IN /\ r.end = "returned"
       /\ ret.count = Len(r.res)
       /\ \A j \in 1..Len(r.res) : ParsedViews[j] = r.res[j].c
       /\ ret.addon_version = r.addon_version

\* C15 (as claimed): parsing a prefixed text yields the characters and the
\* addon version that parsing the text with the prefix removed yields.
C15_PrefixEquivalence ==
    (pc = "returned" /\ Prefixed(content)) => SameAsParsing(PrefixRemoved(content))

\* what follows the prefix begins, after white space, neither with a byte of the
\* byte order mark nor with the prefix again
PlainAfterPrefix(text) ==
    LET r == SkipSpace(AfterPrefix(text))
    IN /\ ~(Len(r) > 0 /\ r[1] \in {"EF", "BB", "BF"})
       /\ ~StartsWith(r, Prefix)

\* C15 (amended): parsing a prefixed text in which the prefix is followed, after
\* optional white space, neither by a byte of the byte order mark nor by the
\* prefix again yields the characters and the addon version that parsing the
\* text with the prefix removed yields.
C15_PrefixEquivalenceAmended ==
    (pc = "returned" /\ Prefixed(content) /\ PlainAfterPrefix(content)) =>
        SameAsParsing(PrefixRemoved(content))

\* a text with a byte order mark, the prefix, a line break and a full table
\* yielded its character and version
C15_Witness ==
    /\ pc = "returned"
    /\ content = <<"EF", "BB", "BF">> \o Prefix \o <<"\n">> \o T_FULL
    /\ ret.count = 1
    /\ ParsedViews[1].guild = <<"G">>
    /\ ret.addon_version = <<"1">>

\* C16 (as claimed): when a call has ended, by returning or by an error raised
\* while it walked the table, every interpreter created so far was closed
\* exactly once; while a call runs, its interpreter is the only one open; and
\* the results of earlier calls are as they were returned.
C16_InterpreterScoped ==
    /\ pc \in {"returned", "aborted", "idle"} => \A k \in 1..Len(lua) : lua[k].closed = 1
    /\ pc = "run" =>
          /\ \A k \in 1..(Len(lua) - 1) : lua[k].closed = 1
          /\ lua[Len(lua)].closed = 0
    /\ \A k \in 1..Len(pre.ids) : View(Memory, pre.ids[k]) = pre.views[k]

\* the entries of the characters table of a text whose literal is a table
\* with a characters table; none for any other text
CharacterEntries(text) ==
    IF WholeFileFailure(text) \/ Ran(text).status # "ok" THEN <<>>
    ELSE Field(Returned(Ran(text)), "characters").a

\* the text has an entry in its characters table whose key is no string
NonStringKeyed(text) ==
    \E k \in 1..Len(CharacterEntries(text)) : CharacterEntries(text)[k].k.t # "str"

StringKeyed(e) == e.k.t = "str"

\* the keys of the characters that the entries with string keys give
KeysOfStringEntries(text) ==
    LET w == WalkCharacters(SelectSeq(CharacterEntries(text), StringKeyed))
    IN [j \in 1..Len(w.res) |-> w.res[j].key]

\* C25 (as claimed): a call on a text with an entry whose key is no string
\* returns to its caller, and its result holds exactly the characters of the
\* entries with string keys.
C25_NonStringKeysTolerated ==
    (CallEnded /\ NonStringKeyed(content)) =>
        /\ pc = "returned"
        /\ srcKeys = KeysOfStringEntries(content)

\* what holds of the code: an entry with a number key is passed over when its
\* value is no table, and the call returns with the other entries' characters
C25_NumberKeyWithScalar ==
    (CallEnded /\ NonStringKeyed(content)
       /\ \A k \in 1..Len(CharacterEntries(content)) :
             CharacterEntries(content)[k].k.t = "num"
                => ~lua_istable(CharacterEntries(content)[k].v)) =>
        /\ pc = "returned"
        /\ srcKeys = KeysOfStringEntries(content)

\* C17 (as claimed): evaluating a text does nothing outside the parse result:
\* it writes no file and does not end the process.
C17_Sandboxed == world = {} /\ pc # "exited"


----------------------------------------------------------------------------
(* character_validate.  item_level is a double: here it carries the whole  *)
(* double domain that matters to a comparison, a number or NaN, as a       *)
(* record [nan, v].  The int fields stay integers.                         *)

\* WST_MAX_ITEM_LEVEL of types.h (1000.0)
WST_MAX_ITEM_LEVEL == 1000

\* WST_MAX_ITEMS_PER_CAT of types.h
WST_MAX_ITEMS_PER_CAT == 50

\* WST_MAX_DELVES of types.h
WST_MAX_DELVES == 8

\* WST_MAX_GILDED_STASH of types.h
WST_MAX_GILDED_STASH == 3

\* ERR_BUF_SIZE of character.c
ERR_BUF_SIZE == 64

\* the double of value n
Double(n) == [nan |-> FALSE, v |-> n]

\* the double that is not a number
NaN == [nan |-> TRUE, v |-> 0]

\* a < b on doubles: false as soon as either is NaN
DoubleLess(a, b) == ~a.nan /\ ~b.nan /\ a.v < b.v

MsgName ==
    <<"C", "h", "a", "r", "a", "c", "t", "e", "r", " ", "n", "a", "m", "e",
      " ", "i", "s", " ", "r", "e", "q", "u", "i", "r", "e", "d">>

MsgRealm ==
    <<"R", "e", "a", "l", "m", " ", "i", "s", " ", "r", "e", "q", "u", "i",
      "r", "e", "d">>

FmtItemLevel ==
    <<"I", "t", "e", "m", " ", "l", "e", "v", "e", "l", " ", "m", "u", "s",
      "t", " ", "b", "e", " ", "b", "e", "t", "w", "e", "e", "n", " ", "0",
      " ", "a", "n", "d", " ">>

FmtBetween ==
    <<" ", "m", "u", "s", "t", " ", "b", "e", " ", "b", "e", "t", "w", "e",
      "e", "n", " ", "0", " ", "a", "n", "d", " ">>

\* the items[] of character_validate, in order: the field and its name as text
items ==
    <<[field |-> "heroic_items", name |-> <<"h", "e", "r", "o", "i", "c", "_", "i", "t", "e", "m", "s">>],
      [field |-> "champion_items", name |-> <<"c", "h", "a", "m", "p", "i", "o", "n", "_", "i", "t", "e", "m", "s">>],
      [field |-> "veteran_items", name |-> <<"v", "e", "t", "e", "r", "a", "n", "_", "i", "t", "e", "m", "s">>],
      [field |-> "adventure_items", name |-> <<"a", "d", "v", "e", "n", "t", "u", "r", "e", "_", "i", "t", "e", "m",
      "s">>],
      [field |-> "old_items", name |-> <<"o", "l", "d", "_", "i", "t", "e", "m", "s">>]>>

\* add_error(errors, error_count, msg) on the list e: nothing without a list
add_error(e, msg) == IF e.list THEN [e EXCEPT !.errors = Append(@, msg)] ELSE e

\* snprintf(buf, sizeof(buf), "%s must be between 0 and %d", name, max)
BetweenMsg(name, max) == Snprintf(ERR_BUF_SIZE, name \o FmtBetween \o IntToStr(max))

\* one range check of an int: the message and WST_ERR_VALIDATION when outside
CheckInt(e, value, name, max) ==
    IF value < 0 \/ value > max
    THEN [add_error(e, BetweenMsg(name, max)) EXCEPT !.code = "WST_ERR_VALIDATION"]
    ELSE e

\* the loop over items[] from index i
RECURSIVE CheckItems(_, _, _)
CheckItems(e, c, i) ==
    IF i > Len(items) THEN e
    ELSE CheckItems(CheckInt(e, c[items[i].field], items[i].name,
                             WST_MAX_ITEMS_PER_CAT), c, i + 1)

\* character_validate(c, errors, error_count), with (list) or without a message
\* list: [list, code, errors].  The pointer c is NULL or <<id>>, the struct at id.
character_validate(M, p, list) ==
    IF p = NULL THEN [list |-> list, code |-> "WST_ERR_NULL_ARG", errors |-> <<>>]
    ELSE
    LET c == View(M, p[1])
        e0 == [list |-> list, code |-> "WST_OK", errors |-> <<>>]
        e1 == IF wst_str_empty(c.name)
              THEN [add_error(e0, MsgName) EXCEPT !.code = "WST_ERR_VALIDATION"]
              ELSE e0
        e2 == IF wst_str_empty(c.realm)
              THEN [add_error(e1, MsgRealm) EXCEPT !.code = "WST_ERR_VALIDATION"]
              ELSE e1
        e3 == IF DoubleLess(c.item_level, Double(0))
                 \/ DoubleLess(Double(WST_MAX_ITEM_LEVEL), c.item_level)
              THEN [add_error(e2, Snprintf(ERR_BUF_SIZE,
                                   FmtItemLevel \o NatToStr(WST_MAX_ITEM_LEVEL)))
                       EXCEPT !.code = "WST_ERR_VALIDATION"]
              ELSE e2
        e4 == CheckItems(e3, c, 1)
        e5 == CheckInt(e4, c.delves, <<"D", "e", "l", "v", "e", "s">>, WST_MAX_DELVES)
        e6 == CheckInt(e5, c.gilded_stash,
                       <<"G", "i", "l", "d", "e", "d", " ", "s", "t", "a", "s", "h">>,
                       WST_MAX_GILDED_STASH)
    IN CheckInt(e6, c.timewalk, <<"T", "i", "m", "e", "w", "a", "l", "k">>, WST_MAX_TIMEWALK)


\* the characters handed to character_validate: names and realms empty or not (a
\* name may also be NULL), and every checked number below, at and above its range
ValidateNames == {NullStr, EmptyStr, <<"A">>}

ValidateRealms == {EmptyStr, <<"R">>}

ValidateItemLevels ==
    {Double(0 - 1), Double(0), Double(WST_MAX_ITEM_LEVEL),
     Double(WST_MAX_ITEM_LEVEL + 1), NaN}

\* the five item counts: all at a bound, or one or all of them outside
ValidateItemCounts ==
    {[k \in 1..Len(items) |-> n] : n \in {0, WST_MAX_ITEMS_PER_CAT,
                                          WST_MAX_ITEMS_PER_CAT + 1}}
    \cup {[k \in 1..Len(items) |-> IF k = bad THEN n ELSE 0] :
             bad \in 1..Len(items), n \in {0 - 1, WST_MAX_ITEMS_PER_CAT + 1}}

ValidateCharacter(name, realm, level, counts, delves, gilded, timewalk) ==
    [character_create(realm, name) EXCEPT
        !.item_level = level,
        !.heroic_items = counts[1], !.champion_items = counts[2],
        !.veteran_items = counts[3], !.adventure_items = counts[4],
        !.old_items = counts[5],
        !.delves = delves, !.gilded_stash = gilded, !.timewalk = timewalk]

ValidateCharacters ==
    {ValidateCharacter(name, realm, level, counts, delves, gilded, timewalk) :
        name \in ValidateNames, realm \in ValidateRealms,
        level \in ValidateItemLevels, counts \in ValidateItemCounts,
        delves \in {0 - 1, 0, WST_MAX_DELVES, WST_MAX_DELVES + 1},
        gilded \in {0 - 1, WST_MAX_GILDED_STASH, WST_MAX_GILDED_STASH + 1},
        timewalk \in {0 - 1, WST_MAX_TIMEWALK, WST_MAX_TIMEWALK + 1}}

\* a caller about to validate the character its store holds at address 1, or
\* none (c == NULL), with or without a message list
InitValidate ==
    /\ \/ \E c \in ValidateCharacters :
             \E M \in {Materialize([mem |-> <<>>, str |-> <<>>], 1, c)} :
                /\ mem = M.mem
                /\ str = M.str
                /\ store = <<1>>
                /\ pre = [ids |-> <<1>>, views |-> <<View(M, 1)>>]
       \/ /\ mem = <<>>
          /\ str = <<>>
          /\ store = <<>>
          /\ pre = NoPre
    /\ pc = "validate"
    /\ table = <<>>
    /\ parseResult = <<>>
    /\ srcKeys = <<>>
    /\ idx = 0
    /\ importedCount = 0
    /\ updatedCount = 0
    /\ content = NullStr
    /\ lua = <<>>
    /\ world = {}
    /\ InitHost
    /\ \E list \in BOOLEAN :
          ret = [call |-> "validate", list |-> list, code |-> "none", errors |-> <<>>]

\* result = character_validate(c, &errors, &error_count), errors empty before
Validate ==
    /\ pc = "validate"
    /\ \E r \in {character_validate(Memory, store, ret.list)} :
          ret' = [call |-> "validate", list |-> r.list, code |-> r.code,
                  errors |-> r.errors]
    /\ pc' = "validated"
    /\ UNCHANGED <<mem, str, store, table, parseResult, srcKeys, idx, importedCount,
                   updatedCount, pre, content, lua, world>>
    /\ UNCHANGED <<capacity, hostVars>>

NextValidate == Validate

SpecValidate == InitValidate /\ [][NextValidate]_vars

\* the checks of a character, by the field each is about
ValidateChecks ==
    {"name", "realm", "item_level", "delves", "gilded_stash", "timewalk"}
    \cup {items[k].field : k \in 1..Len(items)}

\* the upper end of the range of a checked number
RangeMax(f) ==
    CASE f = "item_level" -> WST_MAX_ITEM_LEVEL
      [] f = "delves" -> WST_MAX_DELVES
      [] f = "gilded_stash" -> WST_MAX_GILDED_STASH
      [] f = "timewalk" -> WST_MAX_TIMEWALK
      [] OTHER -> WST_MAX_ITEMS_PER_CAT

\* the character c meets the requirement on field f: a name and a realm that are
\* not empty, a number inside its range (NaN is inside no range)
Meets(c, f) ==
    IF f \in {"name", "realm"} THEN c[f] # NullStr /\ Len(c[f]) > 0
    ELSE IF f = "item_level"
         THEN ~c[f].nan /\ 0 <= c[f].v /\ c[f].v <= RangeMax(f)
         ELSE 0 <= c[f] /\ c[f] <= RangeMax(f)

Violated(c) == {f \in ValidateChecks : ~Meets(c, f)}

\* C20 (as claimed): character_validate returns WST_OK iff every requirement is
\* met, otherwise WST_ERR_VALIDATION with exactly one message per violated check,
\* all distinct, and the character is what it was.
C20_ValidationComplete ==
    (pc = "validated" /\ Len(store) = 1) =>
        LET n == Cardinality(Violated(pre.views[1]))
        IN /\ (ret.code = "WST_OK") <=> (n = 0)
           /\ (n > 0) => (ret.code = "WST_ERR_VALIDATION")
           /\ ret.list =>
                 /\ Len(ret.errors) = n
                 /\ Cardinality({ret.errors[k] : k \in 1..Len(ret.errors)}) = n
           /\ StoreViews = pre.views


----------------------------------------------------------------------------
(* The character store as its callers drive it: add, update, delete, get   *)
(* and the weekly reset, on a new store or on one that is full to its      *)
(* initial capacity.  idx counts the calls made; pre holds the store as    *)
(* the last call found it and ret what that call was and returned.         *)

\* most calls made on the store
MaxOps == 3

\* character_reset_weekly that leaves timewalk alone
character_reset_weekly_keep(M, id) ==
    [M EXCEPT !.mem[id] = [@ EXCEPT !.vault_visited = FALSE, !.delves = 0,
                                    !.gilded_stash = 0, !.gearing_up = FALSE,
                                    !.quests = FALSE]]

\* character_reset_weekly(c)
character_reset_weekly(M, id) ==
    [M EXCEPT !.mem[id] = [@ EXCEPT !.vault_visited = FALSE, !.delves = 0,
                                    !.gilded_stash = 0, !.gearing_up = FALSE,
                                    !.quests = FALSE, !.timewalk = 0]]

\* character_store_reset_weekly_all(store): the loop from index i (1-based)
RECURSIVE ResetFrom(_, _, _)
ResetFrom(M, st, i) ==
    IF i > Len(st) THEN M ELSE ResetFrom(character_reset_weekly(M, st[i]), st, i + 1)

character_store_reset_weekly_all(M, st) == ResetFrom(M, st, 1)

\* the shift loop of character_store_delete and its count--: st without the
\* element at the 0-based index
ShiftDown(st, index) ==
    [k \in 1..(Len(st) - 1) |-> IF k <= index THEN st[k] ELSE st[k + 1]]

\* character_store_delete that drops the last pointer instead of shifting
character_store_delete_last(M, st, index) ==
    IF index >= Len(st) THEN [M |-> M, store |-> st, code |-> "WST_ERR_OUT_OF_RANGE"]
    ELSE [M |-> character_free(M, st[index + 1]),
          store |-> SubSeq(st, 1, Len(st) - 1), code |-> "WST_OK"]

\* character_store_delete(store, index), index 0-based
character_store_delete(M, st, index) ==
    IF index >= Len(st) THEN [M |-> M, store |-> st, code |-> "WST_ERR_OUT_OF_RANGE"]
    ELSE [M |-> character_free(M, st[index + 1]),
          store |-> ShiftDown(st, index), code |-> "WST_OK"]

\* character_store_update(store, index, c), index 0-based, c a struct of M
character_store_update(M, st, index, c) ==
    IF index >= Len(st) THEN [M |-> M, store |-> st, code |-> "WST_ERR_OUT_OF_RANGE"]
    ELSE [M |-> character_free(M, st[index + 1]),
          store |-> [st EXCEPT ![index + 1] = c], code |-> "WST_OK"]

\* character_store_get(store, index): NULL or <<the pointer>>
character_store_get(st, index) == IF index >= Len(st) THEN NULL ELSE <<st[index + 1]>>

\* the characters the callers make: one with every field set, one just created
StoreChars ==
    {[character_create(<<"R">>, <<"A">>) EXCEPT
         !.guild = <<"G">>, !.notes = <<"n">>, !.week_id = <<"2">>,
         !.slot_upgrades_json = <<"[", "]">>, !.item_level = 5, !.heroic_items = 1,
         !.champion_items = 2, !.veteran_items = 3, !.adventure_items = 4,
         !.old_items = 5, !.vault_visited = TRUE, !.delves = 3, !.dungeons = 2,
         !.vault_t8_plus = 1, !.gilded_stash = 2, !.gearing_up = TRUE,
         !.quests = TRUE, !.timewalk = 4, !.upgrade_current = 6, !.upgrade_max = 7,
         !.socket_missing_count = 1, !.socket_empty_count = 1,
         !.enchant_missing_count = 1],
     character_create(<<"R">>, <<"B">>)}

\* the indexes the callers pass: the first, the last, and the two past the end
StoreIndexes == {0, Len(store) - 1, Len(store), Len(store) + 1} \cap Nat

\* n characters at the addresses 1 .. n
RECURSIVE Filled(_, _)
Filled(n, c) ==
    IF n = 0 THEN [mem |-> <<>>, str |-> <<>>] ELSE Materialize(Filled(n - 1, c), n, c)

\* a new store, or one that holds INITIAL_CAPACITY characters
InitStore ==
    /\ \E n \in {0, INITIAL_CAPACITY} : \E c \in StoreChars :
          \E M \in {Filled(n, c)} :
             /\ mem = M.mem
             /\ str = M.str
             /\ store = [k \in 1..n |-> k]
             /\ pre = [ids |-> [k \in 1..n |-> k],
                       views |-> [k \in 1..n |-> View(M, k)]]
    /\ pc = "idle"
    /\ table = <<>>
    /\ parseResult = <<>>
    /\ srcKeys = <<>>
    /\ idx = 0
    /\ importedCount = 0
    /\ updatedCount = 0
    /\ InitParser
    /\ InitHost

StoreFrame ==
    /\ pc = "idle"
    /\ idx < MaxOps
    /\ idx' = idx + 1
    /\ pre' = [ids |-> store, views |-> StoreViews]
    /\ UNCHANGED <<pc, table, parseResult, srcKeys, importedCount, updatedCount,
                   content, lua, world, hostVars>>

\* character_store_add(store, c) with a character just made
StoreAdd ==
    /\ StoreFrame
    /\ \E c \in StoreChars : \E id \in {NewAddr(Memory)} :
       \E M \in {Materialize(Memory, id, c)} :
          /\ mem' = M.mem
          /\ str' = M.str
          /\ store' = character_store_add(store, id)
          /\ capacity' = ensure_capacity(Len(store), capacity)
          /\ ret' = [call |-> "add", index |-> 0, c |-> c, code |-> "WST_OK", p |-> NULL]

\* character_store_update(store, index, c) with a character just made
StoreUpdate ==
    /\ StoreFrame
    /\ \E c \in StoreChars, index \in StoreIndexes : \E id \in {NewAddr(Memory)} :
       \E r \in {character_store_update(Materialize(Memory, id, c), store, index, id)} :
          /\ mem' = r.M.mem
          /\ str' = r.M.str
          /\ store' = r.store
          /\ ret' = [call |-> "update", index |-> index, c |-> c, code |-> r.code,
                     p |-> NULL]
    /\ UNCHANGED capacity

\* character_store_delete(store, index)
StoreDelete ==
    /\ StoreFrame
    /\ \E index \in StoreIndexes :
       \E r \in {character_store_delete(Memory, store, index)} :
          /\ mem' = r.M.mem
          /\ str' = r.M.str
          /\ store' = r.store
          /\ ret' = [call |-> "delete", index |-> index, c |-> character_new,
                     code |-> r.code, p |-> NULL]
    /\ UNCHANGED capacity

\* character_store_get(store, index)
StoreGet ==
    /\ StoreFrame
    /\ \E index \in StoreIndexes :
          ret' = [call |-> "get", index |-> index, c |-> character_new,
                  code |-> "WST_OK", p |-> character_store_get(store, index)]
    /\ UNCHANGED <<mem, str, store, capacity>>

\* character_store_reset_weekly_all(store)
StoreReset ==
    /\ StoreFrame
    /\ \E M \in {character_store_reset_weekly_all(Memory, store)} :
          /\ mem' = M.mem
          /\ str' = M.str
    /\ ret' = [call |-> "reset", index |-> 0, c |-> character_new, code |-> "WST_OK",
               p |-> NULL]
    /\ UNCHANGED <<store, capacity>>

NextStore == StoreAdd \/ StoreUpdate \/ StoreDelete \/ StoreGet \/ StoreReset

SpecStore == InitStore /\ [][NextStore]_vars


\* c after a weekly reset, on the abstract record
WeeklyCleared(c) ==
    [c EXCEPT !.vault_visited = FALSE, !.gearing_up = FALSE, !.quests = FALSE,
              !.delves = 0, !.gilded_stash = 0, !.timewalk = 0]

\* C21: character_store_reset_weekly_all sets the six weekly fields of every
\* character to false or 0, leaves every other field and the store's membership
\* and order as they were, and a second reset changes nothing.
C21_WeeklyReset ==
    (pc = "idle" /\ ret.call = "reset") =>
        /\ store = pre.ids
        /\ StoreViews = [k \in 1..Len(pre.views) |-> WeeklyCleared(pre.views[k])]
        /\ character_store_reset_weekly_all(Memory, store) = Memory

C21_Witness ==
    /\ ret.call = "reset"
    /\ Len(store) >= 2
    /\ \E k \in 1..Len(store) :
          /\ pre.views[k].delves > 0 /\ pre.views[k].timewalk > 0
          /\ pre.views[k].vault_visited /\ pre.views[k].quests
          /\ StoreViews[k].notes = <<"n">> /\ StoreViews[k].dungeons > 0

\* the abstract sequence after the call ret on the sequence s
AbstractStore(s, r) ==
    CASE r.call = "add" -> Append(s, r.c)
      [] r.call = "delete" /\ r.index < Len(s) ->
            [k \in 1..(Len(s) - 1) |-> IF k <= r.index THEN s[k] ELSE s[k + 1]]
      [] r.call = "update" /\ r.index < Len(s) -> [s EXCEPT ![r.index + 1] = r.c]
      [] OTHER -> s

\* C26: after an add, delete or update the store holds the abstract sequence
\* (append; remove the indexed element and shift; replace the indexed element); a
\* get, delete or update with index >= count returns NULL or WST_ERR_OUT_OF_RANGE
\* and changes nothing; count <= capacity in every state.
C26_StoreRefinement ==
    /\ Len(store) <= capacity
    /\ (ret.call \in {"add", "delete", "update", "get"}) =>
          /\ StoreViews = AbstractStore(pre.views, ret)
          /\ (ret.index >= Len(pre.views) /\ ret.call # "add") =>
                /\ store = pre.ids
                /\ ret.p = NULL
                /\ ret.call # "get" => ret.code = "WST_ERR_OUT_OF_RANGE"
          /\ (ret.call = "get" /\ ret.index < Len(pre.views)) =>
                ret.p = <<store[ret.index + 1]>> /\ store = pre.ids

C26_Witness ==
    /\ ret.call = "delete"
    /\ ret.index = 0
    /\ Len(store) = INITIAL_CAPACITY
    /\ capacity > INITIAL_CAPACITY
    /\ StoreViews[Len(store)].name # StoreViews[1].name


----------------------------------------------------------------------------
(* Persistence.  A JSON value is [t, v]; an object is a function from its  *)
(* keys to values.  cJSON_Print and cJSON_Parse are the library's: a       *)
(* printed array is the text "[" item ... item "]", of which a write may   *)
(* put a prefix on disk, and only a whole text parses.                     *)

JsonString(s) == [t |-> "string", v |-> s]

JsonNumber(n) == [t |-> "number", v |-> n]

JsonBool(b) == [t |-> "bool", v |-> b]

\* the keys character_to_json always adds, and the four it adds when not NULL
JsonKeys ==
    {"realm", "name", "guild", "item_level", "heroic_items", "champion_items",
     "veteran_items", "adventure_items", "old_items", "vault_visited", "delves",
     "gilded_stash", "gearing_up", "quests", "timewalk", "notes", "upgrade_current",
     "upgrade_max", "socket_missing_count", "socket_empty_count",
     "enchant_missing_count"}

JsonSlotKeys ==
    {"slot_upgrades_json", "missing_sockets_json", "empty_sockets_json",
     "missing_enchants_json"}

\* character_to_json(c) on the field values c
character_to_json(c) ==
    [k \in JsonKeys \cup {f \in JsonSlotKeys : c[f] # NullStr} |->
        IF k \in StrFields THEN JsonString(IF c[k] = NullStr THEN EmptyStr ELSE c[k])
        ELSE IF k \in {"vault_visited", "gearing_up", "quests"} THEN JsonBool(c[k])
        ELSE JsonNumber(c[k])]

get_json_string(json, key, default_val) ==
    IF key \in DOMAIN json /\ json[key].t = "string" THEN json[key].v ELSE default_val

get_json_number(json, key, default_val) ==
    IF key \in DOMAIN json /\ json[key].t = "number" THEN json[key].v ELSE default_val

get_json_bool(json, key, default_val) ==
    IF key \in DOMAIN json /\ json[key].t = "bool" THEN json[key].v ELSE default_val

\* character_from_json(json): the field values of the character it makes
character_from_json(json) ==
    [f \in Fields |->
        IF f \in {"realm", "name", "guild", "notes"} THEN get_json_string(json, f, EmptyStr)
        ELSE IF f \in JsonSlotKeys THEN get_json_string(json, f, NullStr)
        ELSE IF f \in {"vault_visited", "gearing_up", "quests"}
             THEN get_json_bool(json, f, FALSE)
        ELSE IF f \in JsonKeys THEN get_json_number(json, f, 0)
        ELSE character_new[f]]

\* the first n pieces of the text cJSON_Print gives for the array arr
TextPrefix(arr, n) ==
    [open |-> n >= 1,
     items |-> SubSeq(arr, 1, IF n = 0 THEN 0
                                ELSE IF n - 1 < Len(arr) THEN n - 1 ELSE Len(arr)),
     close |-> n = Len(arr) + 2]

\* strlen(json_str), in pieces
TextLen(arr) == Len(arr) + 2

\* the array character_store_save builds for the characters with these values
SaveItems(views) == [k \in 1..Len(views) |-> character_to_json(views[k])]

\* a file that holds the text doc
FileOf(doc) == [exists |-> TRUE, doc |-> doc]

\* the whole document of a store
Document(views) == TextPrefix(SaveItems(views), TextLen(SaveItems(views)))

\* cJSON_Parse succeeds on whole texts only
Parses(doc) == doc.open /\ doc.close

\* structs at the addresses k, k + 1, ... holding the field values views[k], ...
RECURSIVE MaterializeViews(_, _, _)
MaterializeViews(M, views, k) ==
    IF k > Len(views) THEN M
    ELSE MaterializeViews(Materialize(M, k, views[k]), views, k + 1)

\* the characters character_store_load makes of the parsed arr, in a store just made
LoadItems(arr) ==
    MaterializeViews([mem |-> <<>>, str |-> <<>>],
                     [k \in 1..Len(arr) |-> character_from_json(arr[k])], 1)

\* the capacity after n adds to a store of count characters
RECURSIVE CapacityAfter(_, _, _)
CapacityAfter(cap, count, n) ==
    IF n = 0 THEN cap ELSE CapacityAfter(ensure_capacity(count, cap), count + 1, n - 1)

\* the stores the application holds at first
SaveStores == {<<>>} \cup {<<c>> : c \in StoreChars} \cup {<<c, c>> : c \in StoreChars}

\* the application with its characters in memory and no file yet, in either build
InitSave ==
    /\ \E cs \in SaveStores :
       \E M \in {MaterializeViews([mem |-> <<>>, str |-> <<>>], cs, 1)} :
          /\ mem = M.mem
          /\ str = M.str
          /\ store = [k \in 1..Len(cs) |-> k]
          /\ pre = [ids |-> [k \in 1..Len(cs) |-> k], views |-> cs]
    /\ pc = "idle"
    /\ table = <<>>
    /\ parseResult = <<>>
    /\ srcKeys = <<>>
    /\ idx = 0
    /\ importedCount = 0
    /\ updatedCount = 0
    /\ InitParser
    /\ capacity = INITIAL_CAPACITY
    /\ files = NoFiles
    /\ notifications = <<>>
    /\ config = NoConfig
    /\ clock = 0
    /\ build \in {"win32", "posix"}

SaveFrame ==
    UNCHANGED <<mem, str, store, table, parseResult, srcKeys, idx, importedCount,
                updatedCount, pre, content, lua, world, capacity, notifications,
                config, clock, build>>

\* character_store_save up to the open of the temporary file: the text is built
SaveBegin ==
    /\ pc = "idle"
    /\ pc' = "save_open"
    /\ ret' = [call |-> "save", before |-> files["data"], fault |-> "none",
               code |-> "none"]
    /\ UNCHANGED files
    /\ SaveFrame

\* fopen(temp_path, "w") / CreateFileW(CREATE_ALWAYS): fails, or leaves an empty file
SaveOpen ==
    /\ pc = "save_open"
    /\ \/ /\ pc' = "saved"
          /\ ret' = [ret EXCEPT !.fault = "open", !.code = "WST_ERR_IO"]
          /\ UNCHANGED files
       \/ /\ pc' = "save_write"
          /\ files' = [files EXCEPT !["data.tmp"] = FileOf(TextPrefix(<<>>, 0))]
          /\ UNCHANGED ret
    /\ SaveFrame

\* the write of the text and the close: written pieces reach the file; the Windows
\* branch gives up unless all were written, the other branch only when none was
SaveWrite ==
    /\ pc = "save_write"
    /\ \E arr \in {SaveItems(StoreViews)} : \E written \in 0..TextLen(arr) :
          LET tmp == FileOf(TextPrefix(arr, written))
              gives_up == IF build = "win32" THEN written # TextLen(arr)
                          ELSE written = 0
              fault == IF written = TextLen(arr) THEN ret.fault
                       ELSE IF written = 0 THEN "write" ELSE "short"
          IN IF gives_up
             THEN /\ files' = [files EXCEPT !["data.tmp"] = NoFile]
                  /\ ret' = [ret EXCEPT !.fault = fault, !.code = "WST_ERR_IO"]
                  /\ pc' = "saved"
             ELSE /\ files' = [files EXCEPT !["data.tmp"] = tmp]
                  /\ ret' = [ret EXCEPT !.fault = fault]
                  /\ pc' = "save_rename"
    /\ SaveFrame

\* rename / MoveFileExW(MOVEFILE_REPLACE_EXISTING): fails and the temporary file
\* is removed, or puts the temporary file in the place of the target
SaveRename ==
    /\ pc = "save_rename"
    /\ \/ /\ files' = [files EXCEPT !["data.tmp"] = NoFile]
          /\ ret' = [ret EXCEPT !.fault = "rename", !.code = "WST_ERR_IO"]
       \/ /\ files' = [files EXCEPT !["data"] = files["data.tmp"],
                                     !["data.tmp"] = NoFile]
          /\ ret' = [ret EXCEPT !.code = "WST_OK"]
    /\ pc' = "saved"
    /\ SaveFrame

\* character_store_save has returned
SaveReturn ==
    /\ pc = "saved"
    /\ pc' = "idle"
    /\ UNCHANGED <<files, ret>>
    /\ SaveFrame

\* the next run of the application: character_store_new and character_store_load
\* on the same path
Reload ==
    /\ pc = "idle"
    /\ pre' = [ids |-> store, views |-> StoreViews]
    /\ LET f == files["data"]
       IN IF ~f.exists \/ ~f.doc.open
          THEN /\ mem' = <<>> /\ str' = <<>> /\ store' = <<>>
               /\ capacity' = INITIAL_CAPACITY
               /\ ret' = [call |-> "load", code |-> "WST_OK"]
          ELSE IF ~Parses(f.doc)
          THEN /\ mem' = <<>> /\ str' = <<>> /\ store' = <<>>
               /\ capacity' = INITIAL_CAPACITY
               /\ ret' = [call |-> "load", code |-> "WST_ERR_PARSE"]
          ELSE \E M \in {LoadItems(f.doc.items)} :
               /\ mem' = M.mem /\ str' = M.str
               /\ store' = [k \in 1..Len(f.doc.items) |-> k]
               /\ capacity' = CapacityAfter(INITIAL_CAPACITY, 0, Len(f.doc.items))
               /\ ret' = [call |-> "load", code |-> "WST_OK"]
    /\ UNCHANGED <<pc, table, parseResult, srcKeys, idx, importedCount, updatedCount,
                   content, lua, world, hostVars>>

NextSave ==
    \/ SaveBegin
    \/ SaveOpen
    \/ SaveWrite
    \/ SaveRename
    \/ SaveReturn
    \/ Reload
    \/ StoreReset

SpecSave == InitSave /\ [][NextSave]_vars


\* C22 (as claimed): when the file holds what character_store_save wrote for the
\* store, character_store_load into a new store on the same path gives the same
\* number of characters in the same order, each equal to the saved one in every
\* field.
C22_RoundTrip ==
    (ret.call = "load" /\ files["data"] = FileOf(Document(pre.views))) =>
        StoreViews = pre.views

\* C23 (as claimed): from the start of a save to its return the target file holds
\* its previous content or the whole new document; when the open, the write (none
\* or part of the text written) or the rename fails, the save returns WST_ERR_IO,
\* the target keeps its previous content and the temporary file is gone.
C23_AtomicSave ==
    (pc \in {"save_open", "save_write", "save_rename", "saved"}) =>
        /\ files["data"] \in {ret.before, FileOf(Document(StoreViews))}
        /\ (pc = "saved" /\ ret.fault # "none") =>
              /\ ret.code = "WST_ERR_IO"
              /\ files["data"] = ret.before
              /\ ~files["data.tmp"].exists


----------------------------------------------------------------------------
(* The character dialog with typed counts: the user types the texts of     *)
(* the delves, gilded stash and timewalk controls and presses OK.          *)

\* what the user types for delves: nothing, a number above the domain, a
\* negative number, and numbers around the ends of int and UINT
DlgTexts ==
    {<<>>, <<"9">>, <<"-", "1">>,
     <<"2", "1", "4", "7", "4", "8", "3", "6", "4", "8">>,
     <<"4", "2", "9", "4", "9", "6", "7", "2", "9", "5">>,
     <<"4", "2", "9", "4", "9", "6", "7", "2", "9", "6">>}

\* what the user types for gilded stash and timewalk, in this order
DlgPairs ==
    {<<<<>>, <<>>>>, <<<<"3">>, <<"5">>>>, <<<<"4">>, <<"6">>>>,
     <<<<"4", "2", "9", "4", "9", "6", "7", "2", "9", "5">>,
       <<"2", "1", "4", "7", "4", "8", "3", "6", "4", "8">>>>}

\* the form with the three weekly counts typed
TypedForm(form, delves, pair) ==
    [form EXCEPT !.delves = GetDlgItemInt(delves),
                 !.gilded_stash = GetDlgItemInt(pair[1]),
                 !.timewalk = GetDlgItemInt(pair[2])]

DlgTypeAdd ==
    \E n \in DlgNotes, d \in DlgTexts, gt \in DlgPairs :
        DlgOk(0, TypedForm(AddForm(n), d, gt))

DlgTypeEdit ==
    \E e \in 1..Len(store), n \in DlgNotes, d \in DlgTexts, gt \in DlgPairs :
        DlgOk(e, TypedForm(EditForm(e, n), d, gt))

NextDialog == DlgTypeAdd \/ DlgTypeEdit

SpecDialog == Init /\ [][NextDialog]_vars

\* C24 (as claimed): every character the dialog's OK handler stored has delves in
\* [0,8], gilded_stash in [0,3] and timewalk in [0,5].
C24_ManualEntryClamped ==
    \A k \in 1..Len(store) :
        LET c == View(Memory, store[k])
        IN /\ 0 <= c.delves /\ c.delves <= WST_MAX_DELVES
           /\ 0 <= c.gilded_stash /\ c.gilded_stash <= WST_MAX_GILDED_STASH
           /\ 0 <= c.timewalk /\ c.timewalk <= WST_MAX_TIMEWALK

----------------------------------------------------------------------------
(* The notification history.  notifications holds the Notification structs *)
(* of the store by value, notifications[1] the one at index 0; its file is *)
(* files["notify"], written through files["notify.tmp"].                   *)

WST_MAX_NOTIFICATION_HISTORY == 100000

T_INFO == <<"i", "n", "f", "o">>

T_SUCCESS == <<"s", "u", "c", "c", "e", "s", "s">>

T_WARNING == <<"w", "a", "r", "n", "i", "n", "g">>

notify_type_to_string(type) ==
    CASE type = "WST_NOTIFY_INFO" -> T_INFO
      [] type = "WST_NOTIFY_SUCCESS" -> T_SUCCESS
      [] type = "WST_NOTIFY_WARNING" -> T_WARNING
      [] OTHER -> T_INFO

\* the strings compared are those notify_type_to_string writes, in lower case
notify_type_from_string(s) ==
    IF s = NullStr THEN "WST_NOTIFY_INFO"
    ELSE IF s = T_SUCCESS THEN "WST_NOTIFY_SUCCESS"
    ELSE IF s = T_WARNING THEN "WST_NOTIFY_WARNING"
    ELSE "WST_NOTIFY_INFO"

notification_to_json(n) ==
    [id |-> JsonString(IF n.id = NullStr THEN EmptyStr ELSE n.id),
     message |-> JsonString(IF n.message = NullStr THEN EmptyStr ELSE n.message),
     notification_type |-> JsonString(notify_type_to_string(n.type)),
     timestamp |-> JsonString(IF n.timestamp = NullStr THEN EmptyStr ELSE n.timestamp)]

notification_from_json(json) ==
    [id |-> get_json_string(json, "id", EmptyStr),
     message |-> get_json_string(json, "message", EmptyStr),
     type |-> notify_type_from_string(get_json_string(json, "notification_type", T_INFO)),
     timestamp |-> get_json_string(json, "timestamp", EmptyStr)]

\* notification_store_add(store, n) on the list of the store: n goes to index 0,
\* and what lies beyond the limit is freed
notification_store_add(list, n) ==
    LET all == <<n>> \o list
    IN IF Len(all) > WST_MAX_NOTIFICATION_HISTORY
       THEN SubSeq(all, 1, WST_MAX_NOTIFICATION_HISTORY) ELSE all

\* notification_store_get(store, index): NULL or the notification
notification_store_get(list, index) ==
    IF index >= Len(list) THEN NULL ELSE <<list[index + 1]>>

\* the loop of notification_store_load over the parsed array arr, from the list
RECURSIVE LoadNotifications(_, _)
LoadNotifications(list, arr) ==
    IF Len(arr) = 0 THEN list
    ELSE LoadNotifications(notification_store_add(list, notification_from_json(Head(arr))),
                           Tail(arr))

\* the array notification_store_save builds
NotifyItems(list) == [k \in 1..Len(list) |-> notification_to_json(list[k])]

\* notification_create(message, type): the id and the timestamp are generated
Notes ==
    {[id |-> <<i>>, message |-> <<m>>, type |-> "WST_NOTIFY_SUCCESS",
      timestamp |-> <<"t">>] : i \in {"1", "2"}, m \in {"a", "b"}}

InitNotify == InitContent

NotifyFrame ==
    /\ pc = "idle"
    /\ UNCHANGED <<mem, str, store, pc, table, parseResult, srcKeys, importedCount,
                   updatedCount, content, lua, world, capacity, config, clock, build>>

\* notification_store_add(store, notification_create(message, type))
NotifyAdd ==
    /\ NotifyFrame
    /\ idx < MaxOps
    /\ idx' = idx + 1
    /\ \E n \in Notes :
          /\ notifications' = notification_store_add(notifications, n)
          /\ ret' = [call |-> "notify_add", n |-> n, before |-> notifications,
                     code |-> "WST_OK"]
    /\ UNCHANGED <<files, pre>>

\* notification_store_save(store); pre keeps the notifications as they were
\* when the file was last replaced.  fopen may fail; fwrite puts a prefix of the
\* text into the temporary file and only a prefix of length 0 is taken for a
\* failure; rename may fail.
NotifySave ==
    /\ NotifyFrame
    /\ \E doc \in {NotifyItems(notifications)} :
          \/ /\ ret' = [call |-> "notify_save", code |-> "WST_ERR_IO"]
             /\ UNCHANGED <<files, pre>>
          \/ \E written \in 0..TextLen(doc) :
                IF written = 0
                THEN /\ ret' = [call |-> "notify_save", code |-> "WST_ERR_IO"]
                     /\ files' = [files EXCEPT !["notify.tmp"] = NoFile]
                     /\ UNCHANGED pre
                ELSE \/ /\ ret' = [call |-> "notify_save", code |-> "WST_ERR_IO"]
                        /\ files' = [files EXCEPT !["notify.tmp"] = NoFile]
                        /\ UNCHANGED pre
                     \/ /\ ret' = [call |-> "notify_save", code |-> "WST_OK"]
                        /\ files' = [files EXCEPT
                                       !["notify"] = FileOf(TextPrefix(doc, written)),
                                       !["notify.tmp"] = NoFile]
                        /\ pre' = [ids |-> <<>>, views |-> notifications]
    /\ UNCHANGED <<notifications, idx>>

\* the next run of the application: notification_store_new and
\* notification_store_load on the same path
NotifyLoad ==
    /\ NotifyFrame
    /\ LET f == files["notify"]
       IN IF ~f.exists \/ ~f.doc.open
          THEN /\ notifications' = <<>>
               /\ ret' = [call |-> "notify_load", code |-> "WST_OK", read |-> FALSE]
          ELSE IF ~Parses(f.doc)
          THEN /\ notifications' = <<>>
               /\ ret' = [call |-> "notify_load", code |-> "WST_ERR_PARSE", read |-> FALSE]
          ELSE /\ notifications' = LoadNotifications(<<>>, f.doc.items)
               /\ ret' = [call |-> "notify_load", code |-> "WST_OK", read |-> TRUE]
    /\ UNCHANGED <<files, pre, idx>>

NextNotify == NotifyAdd \/ NotifySave \/ NotifyLoad

SpecNotify == InitNotify /\ [][NextNotify]_vars

\* the notification at index i of list a is there in list b with the same id
\* and message
SameAt(a, b, i) ==
    /\ notification_store_get(b, i) # NULL
    /\ notification_store_get(b, i)[1].id = notification_store_get(a, i)[1].id
    /\ notification_store_get(b, i)[1].message = notification_store_get(a, i)[1].message

\* C27 (as claimed): after notification_store_add the new notification is at
\* index 0 and every other one is one index further; and after a load of a
\* saved history into a store just made, every index holds a notification
\* with the id and message it held when the history was saved.
C27_OrderSurvives ==
    /\ ret.call = "notify_add" =>
          /\ notification_store_get(notifications, 0) = <<ret.n>>
          /\ \A i \in 0..(Len(ret.before) - 1) :
                notification_store_get(notifications, i + 1)
                   = notification_store_get(ret.before, i)
    /\ (ret.call = "notify_load" /\ ret.read) =>
          \A i \in 0..(Len(pre.views) - 1) : SameAt(pre.views, notifications, i)

\* what holds of the code: the load gives the saved history in reverse
C27_LoadReverses ==
    (ret.call = "notify_load" /\ ret.read) =>
        /\ Len(notifications) = Len(pre.views)
        /\ \A i \in 0..(Len(pre.views) - 1) :
              notification_store_get(notifications, Len(pre.views) - 1 - i)
                 = notification_store_get(pre.views, i)

----------------------------------------------------------------------------
(* week_id.c.  A struct tm is a record of its fields; gmtime, timegm and   *)
(* _mkgmtime are the C library's, given here by what they compute.  Where   *)
(* the Windows library is documented to refuse a time before 1970 and its   *)
(* implementations differ, every outcome is kept: the functions give the    *)
(* set of values a call may return.                                         *)

RESET_WEEKDAY == 2

RESET_HOUR == 15

SecondsPerDay == 24 * 3600

\* the days from 1970-01-01 to the day d of month m (1..12) of year y, d any integer
DaysFromCivil(y, m, d) ==
    LET yy == IF m <= 2 THEN y - 1 ELSE y
        era == yy \div 400
        yoe == yy - era * 400
        doy == (153 * (IF m > 2 THEN m - 3 ELSE m + 9) + 2) \div 5 + d - 1
        doe == yoe * 365 + yoe \div 4 - yoe \div 100 + doy
    IN era * 146097 + doe - 719468

\* the broken-down UTC time of the second t
BrokenDown(t) ==
    LET days == t \div SecondsPerDay
        rem == t % SecondsPerDay
        z == days + 719468
        era == z \div 146097
        doe == z - era * 146097
        yoe == (doe - doe \div 1460 + doe \div 36524 - doe \div 146096) \div 365
        doy == doe - (365 * yoe + yoe \div 4 - yoe \div 100)
        mp == (5 * doy + 2) \div 153
        d == doy - (153 * mp + 2) \div 5 + 1
        m == IF mp < 10 THEN mp + 3 ELSE mp - 9
        y == yoe + era * 400 + (IF m <= 2 THEN 1 ELSE 0)
    IN [tm_year |-> y - 1900, tm_mon |-> m - 1, tm_mday |-> d,
        tm_hour |-> rem \div 3600, tm_min |-> (rem % 3600) \div 60, tm_sec |-> rem % 60,
        tm_wday |-> (days + 4) % 7]

\* the second that the fields of tm name, tm_mday in or out of its month
SecondOf(tm) ==
    DaysFromCivil(tm.tm_year + 1900, tm.tm_mon + 1, tm.tm_mday) * SecondsPerDay
       + tm.tm_hour * 3600 + tm.tm_min * 60 + tm.tm_sec

\* gmtime(&t) in the build b: NULL or the struct.  The Windows library gives
\* NULL for a time before 1970, its newer versions only for one more than
\* twelve hours before.
gmtime(b, t) ==
    IF b = "win32" /\ t < 0 - 12 * 3600 THEN {NULL}
    ELSE IF b = "win32" /\ t < 0 THEN {NULL, <<BrokenDown(t)>>}
    ELSE {<<BrokenDown(t)>>}

\* timegm(&tm)
timegm(tm) == SecondOf(tm)

\* _mkgmtime(&tm): -1 for a date before 1970, which not every version refuses
mkgmtime(tm) == IF SecondOf(tm) < 0 THEN {0 - 1, SecondOf(tm)} ELSE {SecondOf(tm)}

\* the struct that calculate_last_reset hands to timegm or _mkgmtime
reset_tm(utc) ==
    LET days_since_tuesday ==
            IF utc.tm_wday = RESET_WEEKDAY /\ utc.tm_hour < RESET_HOUR THEN 7
            ELSE (utc.tm_wday - RESET_WEEKDAY + 7) % 7
    IN [utc EXCEPT !.tm_mday = @ - days_since_tuesday, !.tm_hour = RESET_HOUR,
                   !.tm_min = 0, !.tm_sec = 0]

\* calculate_last_reset(now) in the build b.  timegm gives -1 for the last
\* second of 1969 only, which is no reset time, so the mktime branch is not taken.
calculate_last_reset(b, now) ==
    UNION {IF utc = NULL THEN {now}
           ELSE IF b = "win32" THEN mkgmtime(reset_tm(utc[1]))
           ELSE {timegm(reset_tm(utc[1]))} : utc \in gmtime(b, now)}

\* %0<width>d of a number that is not negative
RECURSIVE Padded(_, _)
Padded(n, width) ==
    IF Len(NatToStr(n)) >= width THEN NatToStr(n)
    ELSE <<"0">> \o Padded(n, width - 1)

\* the "%04d%02d%02d" of week_id_for_timestamp
FormatWeekId(tm) ==
    Padded(tm.tm_year + 1900, 4) \o Padded(tm.tm_mon + 1, 2) \o Padded(tm.tm_mday, 2)

\* week_id_for_timestamp(timestamp) in the build b: NullStr or the id
week_id_for_timestamp(b, timestamp) ==
    UNION {{IF tm = NULL THEN NullStr ELSE FormatWeekId(tm[1]) : tm \in gmtime(b, reset)} :
              reset \in calculate_last_reset(b, timestamp)}

week_id_equal(id1, id2) == id1 # NullStr /\ id2 # NullStr /\ id1 = id2

\* the first reset after 1970-01-01: Tuesday 1970-01-06 15:00 UTC
FirstReset == (5 * 24 + RESET_HOUR) * 3600

SecondsPerWeek == 7 * SecondsPerDay

\* the weeks looked at, counted from the first reset: those of 1970-01-06,
\* 1972-02-29, 2000-02-29, 2024-02-27, 2024-12-31 and 2026-10-27
WeekNumbers == {0, 112, 1573, 2825, 2869, 2964}

\* every hour of a week, the seconds around its reset and its last second
WeekOffsets == {0 - 1, 1, SecondsPerWeek - 1} \cup {h * 3600 : h \in 0..(7 * 24 - 1)}

\* the times before the first reset
EarlyTimes == {0 - 140401, 0 - 140400, 0 - 43201, 0 - 43200, 0 - 1, 0, 1}

Timestamps ==
    {FirstReset + k * SecondsPerWeek + o : k \in WeekNumbers, o \in WeekOffsets}
       \cup EarlyTimes

\* no store and no file, at one of the times, in either build
InitWeek ==
    /\ mem = <<>>
    /\ str = <<>>
    /\ store = <<>>
    /\ pc = "idle"
    /\ table = <<>>
    /\ parseResult = <<>>
    /\ srcKeys = <<>>
    /\ idx = 0
    /\ importedCount = 0
    /\ updatedCount = 0
    /\ pre = NoPre
    /\ InitParser
    /\ capacity = INITIAL_CAPACITY
    /\ files = NoFiles
    /\ notifications = <<>>
    /\ config = NoConfig
    /\ clock \in Timestamps
    /\ build \in {"win32", "posix"}

\* week_id_for_timestamp(t) for the time t of the clock, as week_id_current calls it
WeekIdFor ==
    /\ pc = "idle"
    /\ \E id \in week_id_for_timestamp(build, clock) :
          ret' = [call |-> "week_id", t |-> clock, id |-> id]
    /\ UNCHANGED <<mem, str, store, pc, table, parseResult, srcKeys, idx, importedCount,
                   updatedCount, pre, content, lua, world, capacity, hostVars>>

NextWeek == WeekIdFor

SpecWeek == InitWeek /\ [][NextWeek]_vars

\* the calendar, counted out day by day from a date
IsLeap(y) == y % 4 = 0 /\ (y % 100 # 0 \/ y % 400 = 0)

MonthLen(y, m) ==
    IF m = 2 THEN (IF IsLeap(y) THEN 29 ELSE 28)
    ELSE IF m \in {4, 6, 9, 11} THEN 30 ELSE 31

YearLen(y) == IF IsLeap(y) THEN 366 ELSE 365

\* the date n days after the first day of month m of year y
RECURSIVE DateAfter(_, _, _)
DateAfter(y, m, n) ==
    IF m = 1 /\ n >= YearLen(y) THEN DateAfter(y + 1, 1, n - YearLen(y))
    ELSE IF n >= MonthLen(y, m)
         THEN (IF m = 12 THEN DateAfter(y + 1, 1, n - MonthLen(y, m))
               ELSE DateAfter(y, m + 1, n - MonthLen(y, m)))
    ELSE [y |-> y, m |-> m, d |-> n + 1]

\* the YYYYMMDD of the day that is the given number of days after 1970-01-01,
\* for days from 1969 on
DateId(day) ==
    LET date == DateAfter(1969, 1, day + 365)
    IN Padded(date.y, 4) \o Padded(date.m, 2) \o Padded(date.d, 2)

\* the latest Tuesday 15:00 UTC that is not after t
LatestReset(t) == FirstReset + ((t - FirstReset) \div SecondsPerWeek) * SecondsPerWeek

\* t lies on a Tuesday (1970-01-01 was a Thursday)
OnTuesday(t) == (t \div SecondsPerDay) % 7 = 5

HourOf(t) == (t % SecondsPerDay) \div 3600

\* C30 (as claimed): the id that week_id_for_timestamp gives for t is the
\* date of the latest Tuesday 15:00 UTC not after t, so that all times from one
\* reset up to the next have one id; on a Tuesday before 15:00 it is the date
\* seven days before the day of t, on a Tuesday from 15:00 on the date of that day.
C30_WeekIdOfTimestamp ==
    ret.call = "week_id" =>
        /\ ret.id = DateId(LatestReset(ret.t) \div SecondsPerDay)
        /\ (OnTuesday(ret.t) /\ HourOf(ret.t) < 15) =>
              ret.id = DateId(ret.t \div SecondsPerDay - 7)
        /\ (OnTuesday(ret.t) /\ HourOf(ret.t) >= 15) =>
              ret.id = DateId(ret.t \div SecondsPerDay)

\* what holds of the code: the claim for the times from the first reset on, and
\* in the other build for the earlier times as well
C30_FromFirstReset ==
    (ret.call = "week_id" /\ (build = "posix" \/ ret.t >= FirstReset)) =>
        /\ ret.id = DateId(LatestReset(ret.t) \div SecondsPerDay)
        /\ (OnTuesday(ret.t) /\ HourOf(ret.t) < 15) =>
              ret.id = DateId(ret.t \div SecondsPerDay - 7)
        /\ (OnTuesday(ret.t) /\ HourOf(ret.t) >= 15) =>
              ret.id = DateId(ret.t \div SecondsPerDay)

----------------------------------------------------------------------------
(* The weekly reset of the Windows application: CheckWeeklyReset at start, *)
(* the Reset Weekly Data command, and the addon import between them.  The   *)
(* config object is the record of its string values, NullStr for a key      *)
(* that is absent or holds no string.                                       *)

config_get_string(cfg, key, default_val) ==
    IF key \in DOMAIN cfg /\ cfg[key] # NullStr THEN cfg[key] ELSE default_val

config_set_string(cfg, key, value) ==
    [cfg EXCEPT ![key] = IF value = NullStr THEN EmptyStr ELSE value]

\* the test of CheckWeeklyReset for the first run, without its strlen
FirstRun_null(lastWeekStr) == lastWeekStr = NullStr

\* the test of CheckWeeklyReset for the first run
FirstRun(lastWeekStr) == lastWeekStr = NullStr \/ Len(lastWeekStr) = 0

\* character_store_save in the Windows build, as a whole: it fails and leaves
\* the file as it was, or puts the whole text of these characters in its place
SaveResults(fl, views) == {fl, [fl EXCEPT !["data"] = FileOf(Document(views))]}

\* the views of the characters of st in the memory M
ViewsIn(M, st) == [k \in 1..Len(st) |-> View(M, st[k])]

\* the times of the clock: an hour and six days after the reset of 2026-10-27,
\* and an hour after the next reset
ResetTimes ==
    {FirstReset + 2964 * SecondsPerWeek + 3600,
     FirstReset + 2964 * SecondsPerWeek + 6 * SecondsPerDay,
     FirstReset + 2965 * SecondsPerWeek + 3600}

\* what the config file holds for last_week_id at the start
StoredWeekIds ==
    {NullStr, EmptyStr,
     <<"2", "0", "2", "6", "1", "0", "2", "0">>,
     <<"2", "0", "2", "6", "1", "0", "2", "7">>}

\* the application with its characters loaded, its config loaded, at one of the times
InitReset ==
    /\ \E cs \in SaveStores :
       \E M \in {MaterializeViews([mem |-> <<>>, str |-> <<>>], cs, 1)} :
          /\ mem = M.mem
          /\ str = M.str
          /\ store = [k \in 1..Len(cs) |-> k]
    /\ pc = "idle"
    /\ table = <<>>
    /\ parseResult = <<>>
    /\ srcKeys = <<>>
    /\ idx = 0
    /\ importedCount = 0
    /\ updatedCount = 0
    /\ pre = NoPre
    /\ InitParser
    /\ capacity = INITIAL_CAPACITY
    /\ files = NoFiles
    /\ notifications = <<>>
    /\ \E id \in StoredWeekIds : config = [last_week_id |-> id]
    /\ clock \in ResetTimes
    /\ build = "win32"

ResetFrame ==
    /\ pc = "idle"
    /\ pre' = [ids |-> store, views |-> StoreViews]
    /\ UNCHANGED <<store, pc, table, parseResult, srcKeys, idx, importedCount,
                   updatedCount, content, lua, world, capacity, notifications, clock,
                   build>>

\* CheckWeeklyReset(), as InitializeApplication calls it once the store and the
\* config are loaded
CheckWeeklyReset ==
    /\ ResetFrame
    /\ \E currentWeekStr \in week_id_for_timestamp(build, clock) :
       \E lastWeekStr \in {config_get_string(config, "last_week_id", NullStr)} :
          IF currentWeekStr = NullStr
          THEN /\ ret' = [call |-> "check_reset", reset |-> FALSE]
               /\ UNCHANGED <<mem, str, files, config>>
          ELSE IF FirstRun(lastWeekStr)
          THEN /\ config' = config_set_string(config, "last_week_id", currentWeekStr)
               /\ ret' = [call |-> "check_reset", reset |-> FALSE]
               /\ UNCHANGED <<mem, str, files>>
          ELSE IF ~week_id_equal(currentWeekStr, lastWeekStr)
          THEN \E M \in {character_store_reset_weekly_all(Memory, store)} :
                  /\ mem' = M.mem
                  /\ str' = M.str
                  /\ files' \in SaveResults(files, ViewsIn(M, store))
                  /\ config' = config_set_string(config, "last_week_id", currentWeekStr)
                  /\ ret' = [call |-> "check_reset", reset |-> TRUE]
          ELSE /\ ret' = [call |-> "check_reset", reset |-> FALSE]
               /\ UNCHANGED <<mem, str, files, config>>

\* the Reset Weekly Data command of the main window, answered with Yes
ResetWeekly ==
    /\ ResetFrame
    /\ \E M \in {character_store_reset_weekly_all(Memory, store)} :
          /\ mem' = M.mem
          /\ str' = M.str
          /\ files' \in SaveResults(files, ViewsIn(M, store))
    /\ ret' = [call |-> "reset_weekly", reset |-> TRUE]
    /\ UNCHANGED config

\* time passes
Tick ==
    /\ pc = "idle"
    /\ \E t \in ResetTimes : t > clock /\ clock' = t
    /\ UNCHANGED <<mem, str, store, pc, table, parseResult, srcKeys, idx, importedCount,
                   updatedCount, pre, content, lua, world, ret, capacity, files,
                   notifications, config, build>>

\* DoAddonImport, from the menu or from OnActivate with auto_import set, of a
\* file that holds the character A of realm R
ImportStale ==
    \E p \in Snapshots : ImportBegin(<<FileEntry(<<<<"A", "-", "R">>, p>>)>>)

NextReset ==
    \/ CheckWeeklyReset
    \/ ResetWeekly
    \/ Tick
    \/ ImportStale
    \/ MergeStep
    \/ ImportFree
    \/ ImportSave

SpecReset == InitReset /\ [][NextReset]_vars

\* the week id of the time of the clock
CurrentWeek == CHOOSE id \in week_id_for_timestamp(build, clock) : TRUE

\* C29: CheckWeeklyReset clears the weekly fields of every character and
\* returns TRUE when a last_week_id that is not empty is stored and differs
\* from the current week id, and else leaves every character as it is and
\* returns FALSE, as on the first run with no id stored; when it returns the
\* stored last_week_id is the current week id, and a check made with the
\* current id stored resets nothing.
C29_StartupResetCheck ==
    [][CheckWeeklyReset =>
          LET last == config.last_week_id
              differs == last # NullStr /\ last # EmptyStr /\ last # CurrentWeek
          IN /\ ret'.reset = differs
             /\ store' = store
             /\ StoreViews' = IF differs
                              THEN [k \in 1..Len(store) |-> WeeklyCleared(StoreViews[k])]
                              ELSE StoreViews
             /\ config'.last_week_id = CurrentWeek
             /\ last = CurrentWeek => (~ret'.reset /\ StoreViews' = StoreViews)]_vars

\* a check found last week's id stored, cleared a character's weekly fields and
\* recorded the current id
C29_Witness ==
    /\ ret.call = "check_reset"
    /\ ret.reset
    /\ pc = "idle"
    /\ pre.ids = store
    /\ \E k \in 1..Len(store) :
          /\ pre.views[k].delves > 0
          /\ StoreViews[k] = WeeklyCleared(pre.views[k])
    /\ config.last_week_id = CurrentWeek

\* the six weekly fields of a character
Weekly(c) ==
    <<c.vault_visited, c.delves, c.gilded_stash, c.gearing_up, c.quests, c.timewalk>>

\* C28 (as claimed): after a weekly reset, while an import runs whose file has a
\* week_id that is not the current week's for a character, the weekly fields of
\* that character, cleared when the import began, are as they were.
C28_ResetNotUndone ==
    (ret.call \in {"check_reset", "reset_weekly"} /\ ret.reset /\ pc \in {"merge", "free"}) =>
        \A k \in 1..Len(pre.ids) : \A j \in 1..Len(parseResult) :
            (/\ SameKey(pre.views[k], ParsedViews[j])
             /\ ParsedViews[j].week_id # CurrentWeek
             /\ pre.views[k] = WeeklyCleared(pre.views[k]))
               => Weekly(View(Memory, pre.ids[k])) = Weekly(pre.views[k])

====
